---- MODULE Spec2Model ----
(***************************************************************************)
(* Model of message_queue::MessageQueue (src/message_queue.hpp), a C++     *)
(* wrapper around POSIX message queues, together with the part of the      *)
(* POSIX facility (mq_open, mq_close, mq_send, mq_receive, mq_getattr,     *)
(* mq_unlink, errno) the wrapper calls.                                    *)
(*                                                                         *)
(* The build modelled is the one the tests and main.cpp run: assertions    *)
(* are compiled in (the constructor's assert(get_attr()) and the           *)
(* destructor's assert(mq_close(..)) are executed).                        *)
(*                                                                         *)
(* Handle objects are the slots 1..MaxObjs; every call on a handle is one  *)
(* action, except clear(), whose loop takes one step per kernel call so    *)
(* that other handles can interleave, and blocking send/receive, which     *)
(* stay pending while the kernel would suspend them.                       *)
(***************************************************************************)
EXTENDS Integers, Sequences, FiniteSets, TLC

\* ---------------------------------------------------------------- bounds
MaxObjs == 2            \* handle objects that can exist at the same time
MaxQueues == 2          \* kernel limit on live queues (queues_max)
MaxMsg == 2             \* mq_maxmsg (msg_default) where message traffic is studied
OwnMaxMsg == 1          \* mq_maxmsg (msg_default) where ownership is studied
MsgSize == 1            \* mq_msgsize of a queue created with default attributes
MaxByte == 1            \* payload bytes are 0..MaxByte
ArgMsgSize == 3         \* mq_msgsize where the arguments of send() are varied

\* ------------------------------------------------------ program constants
O_RDONLY == 0
O_WRONLY == 1
O_RDWR == 2
O_NONBLOCK == 2048
RECEIVER == O_RDONLY
SENDER == O_WRONLY
BIDIRECTIONAL == O_RDWR
BLOCKING == 0
NON_BLOCKING == O_NONBLOCK
DEFAULT == 3
MQ_PRIO_MAX == 32768
NAME_MAX == 255
FIRST_FD == 3

\* enum struct Operation { Open, Close, Send, Receive, GetAttr, Unlink }
OpOpen == 0
OpClose == 1
OpSend == 2
OpReceive == 3
OpGetAttr == 4
OpUnlink == 5

EACCES == 13
EEXIST == 17
EMFILE == 24
ENFILE == 23
ENOENT == 2
ENOMEM == 12
ENOSPC == 28
EBADF == 9
EAGAIN == 11
EINTR == 4
EINVAL == 22
EMSGSIZE == 90
ETIMEDOUT == 110
ENAMETOOLONG == 36

\* ----------------------------------------------------------------- inputs
Objs == 1..MaxObjs
QIds == 1..MaxQueues
Fds == FIRST_FD..(FIRST_FD + MaxObjs - 1)
NoFd == -1
Bytes == 0..MaxByte

\* names are character sequences; NameA is a name of the caller's own,
\* NameF is bound for the whole run to a queue of another user that the
\* caller may neither open nor unlink, NameBad has no leading slash
NameA == <<"/", "a">>
NameF == <<"/", "f">>
NameBad == <<"a">>
OwnNames == {NameA}
\* the longest name that passes the name check, and the shortest too long
NameLong == [i \in 1..(NAME_MAX - 2) |-> IF i = 1 THEN "/" ELSE "b"]
NameTooLong == Append(NameLong, "b")
KnownNames == OwnNames \cup {NameLong, NameTooLong}
\* the names of the Construction test ("", "/", no leading slash, a second
\* slash inside, a second slash at the end) and the names at the length limit
NameArgs == {<<>>, <<"/">>, NameBad, <<"/", "a", "/", "b">>, <<"/", "a", "/">>, <<"a", "/">>}
              \cup KnownNames
ForeignNames == {NameF}
NameInputs == OwnNames \cup ForeignNames \cup {NameBad}

Types == {RECEIVER, SENDER, BIDIRECTIONAL}
Modes == {BLOCKING, NON_BLOCKING}
PrioInputs == {0, DEFAULT}

RECURSIVE SeqsUpTo(_, _)
SeqsUpTo(S, n) ==
  IF n = 0 THEN {<<>>}
  ELSE LET shorter == SeqsUpTo(S, n - 1)
       IN shorter \cup {Append(s, x) : s \in {t \in shorter : Len(t) = n - 1}, x \in S}

\* a payload handed to send(): a contiguous container ("stl": data()/size())
\* or a null-terminated char pointer ("cstr": the buffer ends in a zero byte)
StlInputs == {[kind |-> "stl", buf |-> b] : b \in SeqsUpTo(Bytes \ {0}, MsgSize + 1)}
CstrInputs == {[kind |-> "cstr", buf |-> Append(b, 0)] : b \in SeqsUpTo(Bytes \ {0}, MsgSize + 1)}
SeqInputs == StlInputs \cup CstrInputs

\* arguments of send() with zero bytes in them: containers of every content,
\* and char arrays that hold a zero byte somewhere
StlArgs == {[kind |-> "stl", buf |-> b] : b \in SeqsUpTo(Bytes, ArgMsgSize + 1)}
CstrArgs == {[kind |-> "cstr", buf |-> b] :
               b \in {c \in SeqsUpTo(Bytes, ArgMsgSize + 1) : \E i \in 1..Len(c) : c[i] = 0}}
SeqArgs == StlArgs \cup CstrArgs
NoSeq == [kind |-> "stl", buf |-> <<>>]

\* an unsigned int is 32 bits wide: its two 16-bit halves <<high, low>>
UInt(high, low) == <<high, low>>
NoArg == <<>>          \* no argument: Priority{}
PrioArgs == {NoArg, UInt(0, 0), UInt(0, DEFAULT), UInt(0, MQ_PRIO_MAX - 1), UInt(0, MQ_PRIO_MAX),
             UInt(1, 0), UInt(65535, 65535)}

VARIABLES
  kernel,    \* the message queue facility: names, queues, open descriptors
  errno,     \* the thread's error-code cell
  handles,   \* the MessageQueue objects: attr_, name_, type_, mqdes_
  call,      \* per object, the call in progress (clear loop, suspended call)
  last       \* the step taken last: the call, its arguments, its result

vars == <<kernel, errno, handles, call, last>>

\* ------------------------------------------------------------ the kernel
\* Every kernel call is an operator from the kernel state to a record
\* [ret, err, k, msg]: the call's return value, the value it stores in
\* errno (0: errno untouched), the kernel state after it, and for
\* mq_receive the delivered message.
ClosedFd == [q |-> 0, acc |-> O_RDONLY, nonblock |-> FALSE]
NoMsg == [contents |-> <<>>, priority |-> 0]
Suspended == -2        \* pseudo return value: the call does not return yet

\* maxmsg and msgsize are the system's msg_default and msgsize_default: the
\* capacity and the message size limit a queue created with default
\* attributes gets; qattr holds what each queue got when it was created
NoQAttr == [maxmsg |-> 0, msgsize |-> 0]
KernelInit(maxmsg) ==
  [maxmsg |-> maxmsg,
   msgsize |-> MsgSize,
   qattr |-> [q \in QIds |-> NoQAttr],
   names |-> [n \in OwnNames |-> 0],
   msgs |-> [q \in QIds |-> <<>>],
   fds |-> [fd \in Fds |-> ClosedFd]]

IsOpenFd(k, fd) == fd \in Fds /\ k.fds[fd].q # 0

Live(k, q) == (\E n \in DOMAIN k.names : k.names[n] = q) \/ (\E fd \in Fds : k.fds[fd].q = q)

\* a queue that lost its name and its last descriptor is destroyed
Reap(k) ==
  [k EXCEPT !.msgs = [q \in QIds |-> IF Live(k, q) THEN k.msgs[q] ELSE <<>>],
            !.qattr = [q \in QIds |-> IF Live(k, q) THEN k.qattr[q] ELSE NoQAttr]]

Min(S) == CHOOSE x \in S : \A y \in S : x <= y

KRes(ret, err, k) == [ret |-> ret, err |-> err, k |-> k, msg |-> NoMsg]

\* mq_open(name, O_CREAT | acc | nonblock, DEFAULT_PERM, nullptr); envfail is
\* a resource failure the environment imposes (0: none)
mq_open(k, name, acc, nonblock, envfail) ==
  LET freeFds == {fd \in Fds : k.fds[fd].q = 0}
      freeQs == {q \in QIds : ~Live(k, q)}
  IN IF name = <<>> \/ Head(name) # "/" THEN KRes(-1, EINVAL, k)
     ELSE IF Len(name) = 1 THEN KRes(-1, ENOENT, k)
     ELSE IF \E i \in 2..Len(name) : name[i] = "/" THEN KRes(-1, EACCES, k)
     ELSE IF Len(name) > NAME_MAX + 1 THEN KRes(-1, ENAMETOOLONG, k)
     ELSE IF name \in ForeignNames THEN KRes(-1, EACCES, k)
     ELSE IF envfail # 0 THEN KRes(-1, envfail, k)
     ELSE IF freeFds = {} THEN KRes(-1, EMFILE, k)
     ELSE IF k.names[name] = 0 /\ freeQs = {} THEN KRes(-1, ENOSPC, k)
     ELSE LET fd == Min(freeFds)
              q == IF k.names[name] # 0 THEN k.names[name] ELSE Min(freeQs)
          IN KRes(fd, 0,
                  [k EXCEPT !.names[name] = q,
                            !.qattr[q] = IF k.names[name] # 0 THEN @
                                         ELSE [maxmsg |-> k.maxmsg, msgsize |-> k.msgsize],
                            !.fds[fd] = [q |-> q, acc |-> acc, nonblock |-> nonblock]])

mq_close(k, fd) ==
  IF ~IsOpenFd(k, fd) THEN KRes(-1, EBADF, k)
  ELSE KRes(0, 0, Reap([k EXCEPT !.fds[fd] = ClosedFd]))

mq_unlink(k, name, implfail) ==
  IF name = <<>> \/ Head(name) # "/" THEN KRes(-1, implfail, k)
  ELSE IF Len(name) > NAME_MAX THEN KRes(-1, ENAMETOOLONG, k)
  ELSE IF name \in ForeignNames THEN KRes(-1, EACCES, k)
  ELSE IF name \notin DOMAIN k.names \/ k.names[name] = 0 THEN KRes(-1, ENOENT, k)
  ELSE KRes(0, 0, Reap([k EXCEPT !.names[name] = 0]))

mq_getattr(k, fd) ==
  IF ~IsOpenFd(k, fd) THEN [ret |-> -1, err |-> EBADF, attr |-> [mq_flags |-> 0, mq_maxmsg |-> 0, mq_msgsize |-> 0, mq_curmsgs |-> 0]]
  ELSE [ret |-> 0, err |-> 0,
        attr |-> [mq_flags |-> IF k.fds[fd].nonblock THEN O_NONBLOCK ELSE 0,
                  mq_maxmsg |-> k.qattr[k.fds[fd].q].maxmsg,
                  mq_msgsize |-> k.qattr[k.fds[fd].q].msgsize,
                  mq_curmsgs |-> Len(k.msgs[k.fds[fd].q])]]

mq_send(k, fd, bytes, prio) ==
  IF prio >= MQ_PRIO_MAX THEN KRes(-1, EINVAL, k)
  ELSE IF ~IsOpenFd(k, fd) \/ k.fds[fd].acc = O_RDONLY THEN KRes(-1, EBADF, k)
  ELSE IF Len(bytes) > k.qattr[k.fds[fd].q].msgsize THEN KRes(-1, EMSGSIZE, k)
  ELSE LET q == k.fds[fd].q
       IN IF Len(k.msgs[q]) >= k.qattr[q].maxmsg
          THEN IF k.fds[fd].nonblock THEN KRes(-1, EAGAIN, k) ELSE KRes(Suspended, 0, k)
          ELSE KRes(0, 0, [k EXCEPT !.msgs[q] = Append(@, [contents |-> bytes, priority |-> prio])])

\* the pending message delivered next: highest priority, oldest first; the
\* queue keeps its messages in arrival order
NextIndex(msgs) ==
  Min({i \in 1..Len(msgs) : \A j \in 1..Len(msgs) : msgs[j].priority <= msgs[i].priority})

RemoveAt(s, i) == SubSeq(s, 1, i - 1) \o SubSeq(s, i + 1, Len(s))

mq_receive(k, fd, buflen) ==
  IF ~IsOpenFd(k, fd) \/ k.fds[fd].acc = O_WRONLY THEN KRes(-1, EBADF, k)
  ELSE IF buflen < k.qattr[k.fds[fd].q].msgsize THEN KRes(-1, EMSGSIZE, k)
  ELSE LET q == k.fds[fd].q
       IN IF k.msgs[q] = <<>>
          THEN IF k.fds[fd].nonblock THEN KRes(-1, EAGAIN, k) ELSE KRes(Suspended, 0, k)
          ELSE LET i == NextIndex(k.msgs[q])
               IN [ret |-> Len(k.msgs[q][i].contents), err |-> 0,
                   k |-> [k EXCEPT !.msgs[q] = RemoveAt(@, i)],
                   msg |-> k.msgs[q][i]]

\* ------------------------------------------------------------ the wrapper
\* results of wrapper calls: std::expected values, or the exception / failed
\* assertion that ends the call
NoErr == <<>>
Ok == [ok |-> TRUE, thrown |-> "", err |-> NoErr, msg |-> NoMsg, n |-> 0]
OkMsg(m) == [Ok EXCEPT !.msg = m]
OkNum(n) == [Ok EXCEPT !.n = n]
Unexpected(e) == [ok |-> FALSE, thrown |-> "", err |-> e, msg |-> NoMsg, n |-> 0]
Throw(what, e) == [ok |-> FALSE, thrown |-> what, err |-> e, msg |-> NoMsg, n |-> 0]
AssertFail == Throw("assert", NoErr)

\* err_map of parse_err: the (operation, errno) pairs it has a text for
ErrMapDomain ==
  {<<OpOpen, e>> : e \in {EACCES, EEXIST, EMFILE, ENFILE, ENOENT, ENOMEM, ENOSPC}}
  \cup {<<OpClose, EBADF>>}
  \cup {<<OpSend, e>> : e \in {EAGAIN, EBADF, EINTR, EINVAL, EMSGSIZE, ETIMEDOUT}}
  \cup {<<OpReceive, e>> : e \in {EAGAIN, EBADF, EINTR, EINVAL, EMSGSIZE, ETIMEDOUT}}
  \cup {<<OpGetAttr, e>> : e \in {EBADF, EINVAL}}
  \cup {<<OpUnlink, e>> : e \in {EACCES, ENAMETOOLONG, ENOENT}}

err_map(op, e) ==
  CASE op = OpOpen /\ e = EACCES -> "insufficient permission"
    [] op = OpOpen /\ e = EEXIST -> "queue with the same name already exist"
    [] op = OpOpen /\ e = EMFILE -> "per-process limit on the number of fds is reached"
    [] op = OpOpen /\ e = ENFILE -> "system-wide limit on the number of fds is reached"
    [] op = OpOpen /\ e = ENOENT -> "queue doesn't exist"
    [] op = OpOpen /\ e = ENOMEM -> "insufficient memory"
    [] op = OpOpen /\ e = ENOSPC -> "insufficient space"
    [] op = OpClose /\ e = EBADF -> "invalid mq fd"
    [] op = OpSend /\ e = EAGAIN -> "queue is full"
    [] op = OpSend /\ e = EBADF -> "invalid mq fd, or the queue is not opened for sending"
    [] op = OpSend /\ e = EINTR -> "interrupted by a single handler"
    [] op = OpSend /\ e = EINVAL -> "TODO: not implemented"
    [] op = OpSend /\ e = EMSGSIZE -> "contained message length greater than max. size"
    [] op = OpSend /\ e = ETIMEDOUT -> "TODO: not implemented"
    [] op = OpReceive /\ e = EAGAIN -> "queue is empty"
    [] op = OpReceive /\ e = EBADF -> "invalid mq fd, or the queue is not opened for receiving"
    [] op = OpReceive /\ e = EINTR -> "interrupted by a single handler"
    [] op = OpReceive /\ e = EINVAL -> "TODO: time-based api not implemented"
    [] op = OpReceive /\ e = EMSGSIZE -> "given message length less than max. size"
    [] op = OpReceive /\ e = ETIMEDOUT -> "TODO: time-based api not implemented"
    [] op = OpGetAttr /\ e = EBADF -> "invalid mq fd"
    [] op = OpGetAttr /\ e = EINVAL -> "mq_flags contains more than O_NONBLOCK"
    [] op = OpUnlink /\ e = EACCES -> "insufficient permission"
    [] op = OpUnlink /\ e = ENAMETOOLONG -> "name too long"
    [] op = OpUnlink /\ e = ENOENT -> "no message queue found under this name"

\* the format arguments in the wrong order: errno first, then the operation
FormatErr_swapped(op, e, text) == <<e, op, text>>

\* "Error: operation {} with errno {}: {}"
FormatErr(op, e, text) == <<op, e, text>>

\* parse_err that reads errno and leaves it as it is
parse_err_stale(op, en) ==
  [errno |-> en,
   known |-> <<op, en>> \in ErrMapDomain,
   str |-> IF <<op, en>> \in ErrMapDomain THEN FormatErr(op, en, err_map(op, en)) ELSE NoErr]

\* parse_err reads errno (en), clears it, and formats the cause; a pair
\* missing from err_map makes unordered_map::at throw std::out_of_range
parse_err(op, en) ==
  [errno |-> 0,
   known |-> <<op, en>> \in ErrMapDomain,
   str |-> IF <<op, en>> \in ErrMapDomain THEN FormatErr(op, en, err_map(op, en)) ELSE NoErr]

\* the std::unexpected a failed call returns, or out_of_range escaping it
Failure(p) == IF p.known THEN Unexpected(p.str) ELSE Throw("out_of_range", NoErr)

\* ---- handle objects
NoAttr == [mq_flags |-> 0, mq_maxmsg |-> 0, mq_msgsize |-> 0, mq_curmsgs |-> 0]
\* the default member initialisers: attr_{}, name_{}, type_{}, mqdes_{-1}
DefaultMembers == [alive |-> TRUE, attr |-> NoAttr, name |-> <<>>, type |-> 0, mqdes |-> NoFd]
DeadObj == [DefaultMembers EXCEPT !.alive = FALSE]

\* priority_sanity_check with the bound one too high
priority_sanity_check_lax(priority) ==
  IF priority[1] > 0 \/ priority[2] > 32768
  THEN [thrown |-> TRUE, priority_ |-> UInt(0, 0)]
  ELSE [thrown |-> FALSE, priority_ |-> priority]

\* Priority: [thrown, priority_]
priority_sanity_check(priority) ==
  IF priority[1] > 0 \/ priority[2] > 32768 - 1
  THEN [thrown |-> TRUE, priority_ |-> UInt(0, 0)]
  ELSE [thrown |-> FALSE, priority_ |-> priority]

\* Priority{} and Priority{priority}
Priority(priority) ==
  IF priority = NoArg THEN [thrown |-> FALSE, priority_ |-> UInt(0, DEFAULT)]
  ELSE priority_sanity_check(priority)

\* operator unsigned int
AsUnsigned(p) == p.priority_

\* the msg_prio argument of mq_send, which tells values from MQ_PRIO_MAX up
\* from nothing but the smaller ones
MsgPrio(u) == IF u[1] = 0 THEN u[2] ELSE MQ_PRIO_MAX

\* a wrapper method works on w = [k: kernel, e: errno, h: this handle] and
\* yields [w, res]
W(k, e, h) == [k |-> k, e |-> e, h |-> h]
Out(w, res) == [w |-> w, res |-> res]

Count(name, c) == Cardinality({i \in 1..Len(name) : name[i] = c})
FindFirst(name, c) == IF Count(name, c) = 0 THEN -1 ELSE Min({i \in 1..Len(name) : name[i] = c})
FindLast(name, c) == IF Count(name, c) = 0 THEN -1 ELSE -Min({-i : i \in {j \in 1..Len(name) : name[j] = c}})

\* name_sanity_check without name.size() == 1
name_sanity_check_nosize(name) ==
  ~( (name = <<>> \/ Head(name) # "/")
     \/ FindFirst(name, "/") # FindLast(name, "/")
     \/ Len(name) + 1 >= NAME_MAX )

\* TRUE when the name passes (no invalid_argument)
name_sanity_check(name) ==
  ~( (name = <<>> \/ Head(name) # "/")
     \/ FindFirst(name, "/") # FindLast(name, "/")
     \/ Len(name) = 1
     \/ Len(name) + 1 >= NAME_MAX )

get_attr(w) ==
  LET r == mq_getattr(w.k, w.h.mqdes)
  IN IF r.ret # 0
     THEN LET p == parse_err(OpGetAttr, r.err)
          IN Out([w EXCEPT !.e = p.errno], Failure(p))
     ELSE Out([w EXCEPT !.h.attr = r.attr], Ok)

max_size(h) == h.attr.mq_maxmsg
max_msgsize(h) == h.attr.mq_msgsize
name(h) == h.name
type(h) == h.type

\* size(): get_attr().and_then(curmsgs).value()
size(w) ==
  LET g == get_attr(w)
  IN IF g.res.ok THEN Out(g.w, OkNum(g.w.h.attr.mq_curmsgs))
     ELSE IF g.res.thrown # "" THEN g
     ELSE Out(g.w, Throw("bad_expected_access", g.res.err))

\* mode(): get_attr().and_then(flags & O_NONBLOCK).value()
mode(w) ==
  LET g == get_attr(w)
  IN IF g.res.ok
     THEN Out(g.w, OkNum(IF (g.w.h.attr.mq_flags \div O_NONBLOCK) % 2 = 1 THEN NON_BLOCKING ELSE BLOCKING))
     ELSE IF g.res.thrown # "" THEN g
     ELSE Out(g.w, Throw("bad_expected_access", g.res.err))

\* the constructor without its get_attr() call: attr_ stays as initialised
Construct_noattr(k, e, nm, md, ty, envfail) ==
  IF ~name_sanity_check(nm)
  THEN Out(W(k, e, DeadObj), Throw("invalid_argument", <<"invalid mq name">>))
  ELSE LET r == mq_open(k, nm, ty, md = NON_BLOCKING, envfail)
       IN IF r.ret = -1
          THEN LET p == parse_err(OpOpen, r.err)
               IN Out(W(k, p.errno, DeadObj),
                      IF p.known THEN Throw("invalid_argument", p.str) ELSE Throw("out_of_range", NoErr))
          ELSE LET h == [DefaultMembers EXCEPT !.name = nm, !.type = ty, !.mqdes = r.ret]
               IN IF h.mqdes = 0 \/ e # 0
                  THEN Out(W(r.k, e, h), AssertFail)
                  ELSE Out(W(r.k, e, h), Ok)

\* MessageQueue(name, mode, type)
Construct(k, e, nm, md, ty, envfail) ==
  IF ~name_sanity_check(nm)
  THEN Out(W(k, e, DeadObj), Throw("invalid_argument", <<"invalid mq name">>))
  ELSE LET r == mq_open(k, nm, ty, md = NON_BLOCKING, envfail)
       IN IF r.ret = -1
          THEN LET p == parse_err(OpOpen, r.err)
               IN Out(W(k, p.errno, DeadObj),
                      IF p.known THEN Throw("invalid_argument", p.str) ELSE Throw("out_of_range", NoErr))
          ELSE LET h == [DefaultMembers EXCEPT !.name = nm, !.type = ty, !.mqdes = r.ret]
                   g == get_attr(W(r.k, e, h))
               IN IF ~g.res.ok \/ g.w.h.mqdes = 0 \/ g.w.e # 0
                  THEN Out(g.w, AssertFail)
                  ELSE Out(g.w, Ok)

\* a move assignment that copies rhs and leaves it as it is
MoveAssign_copy(this, rhs) ==
  << [this EXCEPT !.attr = rhs.attr, !.name = rhs.name, !.type = rhs.type, !.mqdes = rhs.mqdes],
     rhs >>

\* a move assignment that closes nothing and resets rhs to the default
\* members: this's former descriptor is dropped
MoveAssign_reset(this, rhs) ==
  << [this EXCEPT !.attr = rhs.attr, !.name = rhs.name, !.type = rhs.type, !.mqdes = rhs.mqdes],
     [rhs EXCEPT !.attr = NoAttr, !.name = <<>>, !.type = 0, !.mqdes = NoFd] >>

\* a move assignment without swap(type_, rhs.type_)
MoveAssign_notype(this, rhs) ==
  << [this EXCEPT !.attr = rhs.attr, !.name = rhs.name, !.mqdes = rhs.mqdes],
     [rhs EXCEPT !.attr = this.attr, !.name = this.name, !.mqdes = this.mqdes] >>

\* a move assignment without swap(attr_, rhs.attr_)
MoveAssign_noattr(this, rhs) ==
  << [this EXCEPT !.name = rhs.name, !.type = rhs.type, !.mqdes = rhs.mqdes],
     [rhs EXCEPT !.name = this.name, !.type = this.type, !.mqdes = this.mqdes] >>

\* operator=(MessageQueue&&): swaps the four members; yields <<this, rhs>>
MoveAssign(this, rhs) ==
  << [this EXCEPT !.attr = rhs.attr, !.name = rhs.name, !.type = rhs.type, !.mqdes = rhs.mqdes],
     [rhs EXCEPT !.attr = this.attr, !.name = this.name, !.type = this.type, !.mqdes = this.mqdes] >>

\* MessageQueue(MessageQueue&&): default members, then *this = std::move(rhs)
MoveConstruct(rhs) == MoveAssign(DefaultMembers, rhs)

\* a destructor that also removes the name after closing the descriptor
Destruct_unlinking(w) ==
  IF w.h.mqdes # NoFd
  THEN LET r == mq_close(w.k, w.h.mqdes)
           u == mq_unlink(r.k, w.h.name, ENOENT)
           en == IF r.ret = 0 THEN w.e ELSE r.err
       IN [w |-> W(u.k, en, DeadObj),
           res |-> IF r.ret = 0 /\ en = 0 THEN Ok ELSE AssertFail,
           closed |-> w.h.mqdes]
  ELSE [w |-> [w EXCEPT !.h = DeadObj], res |-> Ok, closed |-> NoFd]

\* ~MessageQueue(): yields [w, res, closed]; closed is the descriptor
\* handed to mq_close (NoFd: no call)
Destruct(w) ==
  IF w.h.mqdes # NoFd
  THEN LET r == mq_close(w.k, w.h.mqdes)
           en == IF r.ret = 0 THEN w.e ELSE r.err
       IN [w |-> W(r.k, en, DeadObj),
           res |-> IF r.ret = 0 /\ en = 0 THEN Ok ELSE AssertFail,
           closed |-> w.h.mqdes]
  ELSE [w |-> [w EXCEPT !.h = DeadObj], res |-> Ok, closed |-> NoFd]

Zeros(n) == [i \in 1..n |-> 0]
Pending == Throw("suspended", NoErr)   \* the kernel suspends the caller

\* get_ptr_and_size that takes std::strlen of a container's data() too
get_ptr_and_size_strlen(sequence) ==
  <<sequence.buf, IF FindFirst(sequence.buf, 0) = -1 THEN Len(sequence.buf)
                  ELSE FindFirst(sequence.buf, 0) - 1>>

\* get_ptr_and_size: <<ptr, size>>, ptr being the bytes that start there
get_ptr_and_size(sequence) ==
  IF sequence.kind = "stl"
  THEN <<sequence.buf, Len(sequence.buf)>>
  ELSE <<sequence.buf, FindFirst(sequence.buf, 0) - 1>>

\* the bytes mq_send copies: size bytes from ptr
Payload(sequence) ==
  LET ps == get_ptr_and_size(sequence) IN SubSeq(ps[1], 1, ps[2])

\* send() that drops the result of mq_send and reports success
send_ignoring(w, sequence, priority, intr) ==
  LET r == mq_send(w.k, w.h.mqdes, Payload(sequence), priority)
  IN IF r.ret = Suspended
     THEN IF intr THEN LET p == parse_err(OpSend, EINTR) IN Out([w EXCEPT !.e = p.errno], Failure(p))
          ELSE Out(w, Pending)
     ELSE Out([w EXCEPT !.k = r.k], Ok)

\* send(sequence, priority); intr: a signal interrupts the suspended call
send(w, sequence, priority, intr) ==
  LET r == mq_send(w.k, w.h.mqdes, Payload(sequence), priority)
  IN IF r.ret = Suspended
     THEN IF intr THEN LET p == parse_err(OpSend, EINTR) IN Out([w EXCEPT !.e = p.errno], Failure(p))
          ELSE Out(w, Pending)
     ELSE IF r.ret # 0
     THEN LET p == parse_err(OpSend, r.err) IN Out([w EXCEPT !.e = p.errno], Failure(p))
     ELSE Out([w EXCEPT !.k = r.k], Ok)

\* receive() that reports its failure as one of Operation::Send
receive_wrongop(w, intr) ==
  LET buf == Zeros(max_msgsize(w.h))
      r == mq_receive(w.k, w.h.mqdes, Len(buf))
  IN IF r.ret = Suspended
     THEN IF intr THEN LET p == parse_err(OpReceive, EINTR) IN Out([w EXCEPT !.e = p.errno], Failure(p))
          ELSE Out(w, Pending)
     ELSE IF r.ret # -1
     THEN LET filled == r.msg.contents \o SubSeq(buf, r.ret + 1, Len(buf))
              msg == SubSeq(filled, 1, r.ret)
          IN Out([w EXCEPT !.k = r.k], OkMsg([contents |-> msg, priority |-> r.msg.priority]))
     ELSE LET p == parse_err(OpSend, r.err) IN Out([w EXCEPT !.e = p.errno], Failure(p))

\* receive() without msg.resize(size): the whole buffer is returned
receive_noresize(w, intr) ==
  LET buf == Zeros(max_msgsize(w.h))
      r == mq_receive(w.k, w.h.mqdes, Len(buf))
  IN IF r.ret = Suspended
     THEN IF intr THEN LET p == parse_err(OpReceive, EINTR) IN Out([w EXCEPT !.e = p.errno], Failure(p))
          ELSE Out(w, Pending)
     ELSE IF r.ret # -1
     THEN LET filled == r.msg.contents \o SubSeq(buf, r.ret + 1, Len(buf))
          IN Out([w EXCEPT !.k = r.k], OkMsg([contents |-> filled, priority |-> r.msg.priority]))
     ELSE LET p == parse_err(OpReceive, r.err) IN Out([w EXCEPT !.e = p.errno], Failure(p))

\* receive() that does not hand &priority.priority_ to mq_receive: the
\* Message carries the default-constructed Priority
receive_defaultprio(w, intr) ==
  LET buf == Zeros(max_msgsize(w.h))
      r == mq_receive(w.k, w.h.mqdes, Len(buf))
  IN IF r.ret = Suspended
     THEN IF intr THEN LET p == parse_err(OpReceive, EINTR) IN Out([w EXCEPT !.e = p.errno], Failure(p))
          ELSE Out(w, Pending)
     ELSE IF r.ret # -1
     THEN LET filled == r.msg.contents \o SubSeq(buf, r.ret + 1, Len(buf))
              msg == SubSeq(filled, 1, r.ret)
          IN Out([w EXCEPT !.k = r.k], OkMsg([contents |-> msg, priority |-> DEFAULT]))
     ELSE LET p == parse_err(OpReceive, r.err) IN Out([w EXCEPT !.e = p.errno], Failure(p))

\* receive() through the timed call with a deadline that has passed: where
\* mq_receive would suspend, the call returns ETIMEDOUT
receive_timed(w, intr) ==
  LET buf == Zeros(max_msgsize(w.h))
      r == mq_receive(w.k, w.h.mqdes, Len(buf))
  IN IF r.ret = Suspended
     THEN LET p == parse_err(OpReceive, ETIMEDOUT) IN Out([w EXCEPT !.e = p.errno], Failure(p))
     ELSE IF r.ret # -1
     THEN LET filled == r.msg.contents \o SubSeq(buf, r.ret + 1, Len(buf))
              msg == SubSeq(filled, 1, r.ret)
          IN Out([w EXCEPT !.k = r.k], OkMsg([contents |-> msg, priority |-> r.msg.priority]))
     ELSE LET p == parse_err(OpReceive, r.err) IN Out([w EXCEPT !.e = p.errno], Failure(p))

\* receive() with msg.reserve(max_msgsize()) in place of the sized string:
\* the buffer handed to mq_receive has size() 0
receive_reserve(w, intr) ==
  LET buf == <<>>
      r == mq_receive(w.k, w.h.mqdes, Len(buf))
  IN IF r.ret = Suspended
     THEN IF intr THEN LET p == parse_err(OpReceive, EINTR) IN Out([w EXCEPT !.e = p.errno], Failure(p))
          ELSE Out(w, Pending)
     ELSE IF r.ret # -1
     THEN LET filled == r.msg.contents \o SubSeq(buf, r.ret + 1, Len(buf))
              msg == SubSeq(filled, 1, r.ret)
          IN Out([w EXCEPT !.k = r.k], OkMsg([contents |-> msg, priority |-> r.msg.priority]))
     ELSE LET p == parse_err(OpReceive, r.err) IN Out([w EXCEPT !.e = p.errno], Failure(p))

\* receive()
receive(w, intr) ==
  LET buf == Zeros(max_msgsize(w.h))
      r == mq_receive(w.k, w.h.mqdes, Len(buf))
  IN IF r.ret = Suspended
     THEN IF intr THEN LET p == parse_err(OpReceive, EINTR) IN Out([w EXCEPT !.e = p.errno], Failure(p))
          ELSE Out(w, Pending)
     ELSE IF r.ret # -1
     THEN LET filled == r.msg.contents \o SubSeq(buf, r.ret + 1, Len(buf))
              msg == SubSeq(filled, 1, r.ret)
          IN Out([w EXCEPT !.k = r.k], OkMsg([contents |-> msg, priority |-> r.msg.priority]))
     ELSE LET p == parse_err(OpReceive, r.err) IN Out([w EXCEPT !.e = p.errno], Failure(p))

\* unlink(name) that reports its failure as one of Operation::Open
unlink_wrongop(k, e, nm, implfail) ==
  LET r == mq_unlink(k, nm, implfail)
  IN IF r.ret # 0
     THEN LET p == parse_err(OpOpen, r.err) IN Out(W(k, p.errno, DeadObj), Failure(p))
     ELSE Out(W(r.k, e, DeadObj), Ok)

\* unlink(name)
unlink(k, e, nm, implfail) ==
  LET r == mq_unlink(k, nm, implfail)
  IN IF r.ret # 0
     THEN LET p == parse_err(OpUnlink, r.err) IN Out(W(k, p.errno, DeadObj), Failure(p))
     ELSE Out(W(r.k, e, DeadObj), Ok)

\* clear(), line 185: what a failed receive makes the loop do; TRUE: return
\* the error, FALSE: go on (the std::unexpected is built and discarded)
clear_returns_error(res) == FALSE

\* the loop of clear() from attempt i on, nothing else running meanwhile
RECURSIVE clear_loop(_, _, _)
clear_loop(w, i, sz) ==
  IF ~(i < sz) THEN Out(w, Ok)
  ELSE LET e == receive(w, FALSE)
       IN IF e.res.thrown # "" THEN e
          ELSE IF ~e.res.ok /\ clear_returns_error(e.res) THEN Out(e.w, Unexpected(e.res.err))
          ELSE clear_loop(e.w, i + 1, sz)

\* clear() whose loop stops one attempt early
clear_short(w) ==
  LET sz == size(w)
  IN IF ~sz.res.ok THEN sz ELSE clear_loop(sz.w, 1, sz.res.n)

\* clear() as one call
clear(w) ==
  LET sz == size(w)
  IN IF ~sz.res.ok THEN sz ELSE clear_loop(sz.w, 0, sz.res.n)

\* build() that goes on to the constructor after a failed unlink
build_ignoring(k, e, nm, md, ty, reset, envfail, implfail) ==
  LET u == IF reset = "true" THEN unlink(k, e, nm, implfail) ELSE Out(W(k, e, DeadObj), Ok)
      c == Construct(u.w.k, u.w.e, nm, md, ty, envfail)
  IN IF c.res.ok
     THEN LET mv == MoveConstruct(c.w.h)
              d == Destruct([c.w EXCEPT !.h = mv[2]])
          IN IF d.res.ok THEN [w |-> [d.w EXCEPT !.h = mv[1]], res |-> Ok, attempted |-> TRUE]
             ELSE [w |-> d.w, res |-> d.res, attempted |-> TRUE]
     ELSE IF c.res.thrown = "invalid_argument"
     THEN [w |-> c.w, res |-> Unexpected(c.res.err), attempted |-> TRUE]
     ELSE [w |-> c.w, res |-> c.res, attempted |-> TRUE]

\* build() that skips the unlink whatever reset says
build_noreset(k, e, nm, md, ty, reset, envfail, implfail) ==
  LET c == Construct(k, e, nm, md, ty, envfail)
  IN IF c.res.ok
     THEN LET mv == MoveConstruct(c.w.h)
              d == Destruct([c.w EXCEPT !.h = mv[2]])
          IN IF d.res.ok THEN [w |-> [d.w EXCEPT !.h = mv[1]], res |-> Ok, attempted |-> TRUE]
             ELSE [w |-> d.w, res |-> d.res, attempted |-> TRUE]
     ELSE IF c.res.thrown = "invalid_argument"
     THEN [w |-> c.w, res |-> Unexpected(c.res.err), attempted |-> TRUE]
     ELSE [w |-> c.w, res |-> c.res, attempted |-> TRUE]

\* Builder::build(); reset is "unset", "false" or "true"; the handle built
\* is move-constructed into the returned std::expected; attempted tells
\* whether the constructor (the open step) was entered
build(k, e, nm, md, ty, reset, envfail, implfail) ==
  LET u == IF reset = "true" THEN unlink(k, e, nm, implfail) ELSE Out(W(k, e, DeadObj), Ok)
  IN IF ~u.res.ok THEN [w |-> u.w, res |-> u.res, attempted |-> FALSE]
     ELSE LET c == Construct(u.w.k, u.w.e, nm, md, ty, envfail)
          IN IF c.res.ok
             THEN LET mv == MoveConstruct(c.w.h)
                      d == Destruct([c.w EXCEPT !.h = mv[2]])
                  IN IF d.res.ok THEN [w |-> [d.w EXCEPT !.h = mv[1]], res |-> Ok, attempted |-> TRUE]
                     ELSE [w |-> d.w, res |-> d.res, attempted |-> TRUE]
             ELSE IF c.res.thrown = "invalid_argument"
             THEN [w |-> c.w, res |-> Unexpected(c.res.err), attempted |-> TRUE]
             ELSE [w |-> c.w, res |-> c.res, attempted |-> TRUE]

\* what the environment may answer: mq_open fails for lack of resources
\* (a code err_map has an Open text for) or is interrupted by a signal
\* (POSIX: EINTR, a code err_map has no Open text for);
\* mq_unlink of a name without leading slash is implementation-defined
\* (glibc: EINVAL; a libc that passes the name on: ENOENT)
EnvOpenErrnos == {ENFILE, EINTR}
ImplUnlinkErrnos == {EINVAL, ENOENT}
EnvsFor(nm, envs) == IF nm \in OwnNames THEN envs ELSE {0}
ImplFor(nm) == IF nm = <<>> \/ Head(nm) # "/" THEN ImplUnlinkErrnos ELSE {0}

\* ------------------------------------------------------------ the actions
NoCall == [op |-> "none", i |-> 0, sz |-> 0, failed |-> NoErr, m |-> NoMsg]

\* the record of a step: the call, the handle(s), its arguments, its result
\* (closed: descriptor the destructor closed; attempted: build() entered the
\* open step; failed: first cause a receive inside clear() failed with;
\* i: receive attempts of clear(); sent, pre, post: see RoundTrip;
\* sequence, p, priority: see SendArgs; cleared: see DoClear;
\* form, md, ty: see DoOpen)
Rec(op, o) ==
  [op |-> op, o |-> o, o2 |-> 0, name |-> <<>>, m |-> NoMsg, res |-> Ok,
   closed |-> NoFd, attempted |-> FALSE, failed |-> NoErr, i |-> 0,
   sent |-> Ok, pre |-> 0, post |-> 0,
   sequence |-> NoSeq, p |-> NoArg, priority |-> NoArg, cleared |-> <<>>,
   form |-> "", md |-> 0, ty |-> 0]

InitWith(maxmsg) ==
  /\ kernel = KernelInit(maxmsg)
  /\ errno = 0
  /\ handles = [o \in Objs |-> DeadObj]
  /\ call = [o \in Objs |-> NoCall]
  /\ last = Rec("init", 0)

Idle(o) == call[o].op = "none"
Me(o) == W(kernel, errno, handles[o])

Commit(o, w, rec) ==
  /\ kernel' = w.k
  /\ errno' = w.e
  /\ handles' = [handles EXCEPT ![o] = w.h]
  /\ last' = rec

\* auto q = MessageQueue{name, mode, type};
DoConstruct(o, names, modes, types, envs) ==
  /\ ~handles[o].alive /\ Idle(o)
  /\ \E nm \in names, md \in modes, ty \in types :
     \E envfail \in EnvsFor(nm, envs) :
       LET c == Construct(kernel, errno, nm, md, ty, envfail)
       IN Commit(o, c.w, [Rec("construct", o) EXCEPT !.name = nm, !.res = c.res])
  /\ UNCHANGED call

\* the ways of writing the constructor call: MessageQueue{name},
\* MessageQueue{name, mode}, MessageQueue{name, type} and
\* MessageQueue{name, mode, type}; an argument left out takes its default
Forms == {"name", "name_mode", "name_type", "name_mode_type"}
ModeArg(form, md) == IF form \in {"name_mode", "name_mode_type"} THEN md ELSE NON_BLOCKING
TypeArg(form, ty) == IF form \in {"name_type", "name_mode_type"} THEN ty ELSE BIDIRECTIONAL

\* auto q = MessageQueue{...} in one of its forms; the record keeps the form
\* and the arguments written (md, ty: 0 where the form has none)
DoOpen(o, names, modes, types) ==
  /\ ~handles[o].alive /\ Idle(o)
  /\ \E form \in Forms, nm \in names, md \in modes, ty \in types :
       /\ form \in {"name", "name_type"} => md = BLOCKING
       /\ form \in {"name", "name_mode"} => ty = RECEIVER
       /\ LET c == Construct(kernel, errno, nm, ModeArg(form, md), TypeArg(form, ty), 0)
          IN Commit(o, c.w, [Rec("open", o) EXCEPT !.name = nm, !.res = c.res,
                                                  !.form = form, !.md = md, !.ty = ty])
  /\ UNCHANGED call

\* auto b = std::move(a);
DoMoveConstruct(dst, src) ==
  /\ dst # src /\ ~handles[dst].alive /\ handles[src].alive /\ Idle(dst) /\ Idle(src)
  /\ LET mv == MoveConstruct(handles[src])
     IN handles' = [handles EXCEPT ![dst] = mv[1], ![src] = mv[2]]
  /\ last' = [Rec("move_construct", dst) EXCEPT !.o2 = src]
  /\ UNCHANGED <<kernel, errno, call>>

\* b = std::move(a);
DoMoveAssign(dst, src) ==
  /\ handles[dst].alive /\ handles[src].alive /\ Idle(dst) /\ Idle(src)
  /\ LET mv == MoveAssign(handles[dst], handles[src])
     IN handles' = IF dst = src THEN handles
                   ELSE [handles EXCEPT ![dst] = mv[1], ![src] = mv[2]]
  /\ last' = [Rec("move_assign", dst) EXCEPT !.o2 = src]
  /\ UNCHANGED <<kernel, errno, call>>

\* the handle goes out of scope
DoDestroy(o) ==
  /\ handles[o].alive /\ Idle(o)
  /\ LET d == Destruct(Me(o))
     IN Commit(o, d.w, [Rec("destroy", o) EXCEPT !.res = d.res, !.closed = d.closed])
  /\ UNCHANGED call

DoSend(o, seqs, prios) ==
  /\ handles[o].alive /\ Idle(o)
  /\ \E sequence \in seqs, priority \in prios :
       LET r == send(Me(o), sequence, priority, FALSE)
           m == [contents |-> Payload(sequence), priority |-> priority]
       IN IF r.res = Pending
          THEN /\ call' = [call EXCEPT ![o] = [NoCall EXCEPT !.op = "send", !.m = m]]
               /\ Commit(o, r.w, Rec("send_suspended", o))
          ELSE /\ Commit(o, r.w, [Rec("send", o) EXCEPT !.m = m, !.res = r.res])
               /\ UNCHANGED call

DoReceive(o) ==
  /\ handles[o].alive /\ Idle(o)
  /\ LET r == receive(Me(o), FALSE)
     IN IF r.res = Pending
        THEN /\ call' = [call EXCEPT ![o] = [NoCall EXCEPT !.op = "receive"]]
             /\ Commit(o, r.w, Rec("receive_suspended", o))
        ELSE /\ Commit(o, r.w, [Rec("receive", o) EXCEPT !.res = r.res])
             /\ UNCHANGED call

\* a suspended send or receive returns: the queue has room or a message
\* now (intr = FALSE) or a signal interrupts the call (intr = TRUE)
Resume(o) ==
  /\ call[o].op \in {"send", "receive"}
  /\ \E intr \in BOOLEAN :
       LET r == IF call[o].op = "send"
                THEN send(Me(o), [kind |-> "stl", buf |-> call[o].m.contents], call[o].m.priority, intr)
                ELSE receive(Me(o), intr)
       IN /\ r.res # Pending
          /\ Commit(o, r.w, [Rec(call[o].op, o) EXCEPT !.m = call[o].m, !.res = r.res])
  /\ call' = [call EXCEPT ![o] = NoCall]

\* q.send(sequence, Priority{p}) or q.send(sequence, Priority{}) on a
\* non-blocking handle; the record keeps the arguments as written and the
\* Priority converted back to unsigned int
SendArgs(o, seqs, prioargs) ==
  /\ handles[o].alive /\ Idle(o)
  /\ \E sequence \in seqs, p \in prioargs :
       LET priority == Priority(p)
           rec == [Rec("send_args", o) EXCEPT !.sequence = sequence, !.p = p]
       IN IF priority.thrown
          THEN Commit(o, Me(o), [rec EXCEPT !.res = Throw("invalid_argument",
                                                         <<"priority exceeds the max. limit(32767)">>)])
          ELSE LET r == send(Me(o), sequence, MsgPrio(AsUnsigned(priority)), FALSE)
               IN /\ r.res # Pending
                  /\ Commit(o, r.w, [rec EXCEPT !.priority = AsUnsigned(priority), !.res = r.res])
  /\ UNCHANGED call

\* n0 = q.size(); q.send(msg, p); q.receive(); n1 = q.size(): the calls of
\* round_trip_check / use_queue back to back, nothing running in between
RoundTrip(o, seqs, prios) ==
  /\ handles[o].alive /\ Idle(o)
  /\ \E sequence \in seqs, priority \in prios :
       LET n0 == size(Me(o))
           s == send(n0.w, sequence, priority, FALSE)
           r == receive(s.w, FALSE)
           n1 == size(r.w)
       IN /\ n0.res.ok /\ s.res # Pending /\ r.res # Pending
          /\ Commit(o, n1.w, [Rec("round_trip", o) EXCEPT
                                 !.m = [contents |-> Payload(sequence), priority |-> priority],
                                 !.sent = s.res, !.res = r.res,
                                 !.pre = n0.res.n, !.post = n1.res.n])
  /\ UNCHANGED call

DoSize(o) ==
  /\ handles[o].alive /\ Idle(o)
  /\ LET r == size(Me(o)) IN Commit(o, r.w, [Rec("size", o) EXCEPT !.res = r.res])
  /\ UNCHANGED call

DoMode(o) ==
  /\ handles[o].alive /\ Idle(o)
  /\ LET r == mode(Me(o)) IN Commit(o, r.w, [Rec("mode", o) EXCEPT !.res = r.res])
  /\ UNCHANGED call

\* clear(): for (i = 0, sz = size(); ...
ClearBegin(o) ==
  /\ handles[o].alive /\ Idle(o)
  /\ LET r == size(Me(o))
     IN IF ~r.res.ok
        THEN /\ Commit(o, r.w, [Rec("clear", o) EXCEPT !.res = r.res])
             /\ UNCHANGED call
        ELSE IF r.res.n = 0
        THEN /\ Commit(o, r.w, Rec("clear", o))
             /\ UNCHANGED call
        ELSE /\ Commit(o, r.w, Rec("clear_begin", o))
             /\ call' = [call EXCEPT ![o] = [NoCall EXCEPT !.op = "clear", !.sz = r.res.n]]

\* the loop of clear() with size() called again in each comparison
ClearStep_reread(o) ==
  /\ call[o].op = "clear"
  /\ \E intr \in BOOLEAN :
       LET r == receive(Me(o), intr)
           c == call[o]
           failed == IF c.failed = NoErr /\ ~r.res.ok THEN r.res.err ELSE c.failed
           i == c.i + 1
           sz == size(r.w)
       IN /\ r.res # Pending
          /\ IF ~r.res.ok /\ (r.res.thrown # "" \/ clear_returns_error(r.res))
             THEN /\ Commit(o, r.w, [Rec("clear", o) EXCEPT !.res = r.res, !.failed = failed, !.i = i])
                  /\ call' = [call EXCEPT ![o] = NoCall]
             ELSE IF i < sz.res.n
             THEN /\ Commit(o, sz.w, [Rec("clear_step", o) EXCEPT !.res = r.res, !.i = i])
                  /\ call' = [call EXCEPT ![o] = [c EXCEPT !.i = i, !.failed = failed]]
             ELSE /\ Commit(o, sz.w, [Rec("clear", o) EXCEPT !.failed = failed, !.i = i])
                  /\ call' = [call EXCEPT ![o] = NoCall]

\* ... i < sz; ++i) if (auto e = receive(); !e) std::unexpected{e.error()};
\* return {};
ClearStep(o) ==
  /\ call[o].op = "clear"
  /\ \E intr \in BOOLEAN :
       LET r == receive(Me(o), intr)
           c == call[o]
           failed == IF c.failed = NoErr /\ ~r.res.ok THEN r.res.err ELSE c.failed
           i == c.i + 1
       IN /\ r.res # Pending
          /\ IF ~r.res.ok /\ (r.res.thrown # "" \/ clear_returns_error(r.res))
             THEN /\ Commit(o, r.w, [Rec("clear", o) EXCEPT !.res = r.res, !.failed = failed, !.i = i])
                  /\ call' = [call EXCEPT ![o] = NoCall]
             ELSE IF i < c.sz
             THEN /\ Commit(o, r.w, [Rec("clear_step", o) EXCEPT !.res = r.res, !.i = i])
                  /\ call' = [call EXCEPT ![o] = [c EXCEPT !.i = i, !.failed = failed]]
             ELSE /\ Commit(o, r.w, [Rec("clear", o) EXCEPT !.failed = failed, !.i = i])
                  /\ call' = [call EXCEPT ![o] = NoCall]

\* n0 = q.size(); q.clear(); n1 = q.size() with nothing running in between;
\* cleared: the messages pending when the call started
DoClear(o) ==
  /\ handles[o].alive /\ Idle(o)
  /\ LET n0 == size(Me(o))
         c == clear(n0.w)
         n1 == size(c.w)
     IN /\ n0.res.ok /\ c.res # Pending /\ n1.res.ok
        /\ Commit(o, n1.w, [Rec("clear_alone", o) EXCEPT !.res = c.res, !.pre = n0.res.n, !.post = n1.res.n,
                                                         !.cleared = kernel.msgs[kernel.fds[handles[o].mqdes].q]])
  /\ UNCHANGED call

\* the administrator sets the system's msg_default and msgsize_default:
\* queues created from now on get these limits, existing queues keep theirs
SetDefaults ==
  /\ \E d \in {0, 1} :
       /\ kernel.maxmsg # OwnMaxMsg + d
       /\ kernel' = [kernel EXCEPT !.maxmsg = OwnMaxMsg + d, !.msgsize = MsgSize + d]
  /\ last' = Rec("set_defaults", 0)
  /\ UNCHANGED <<errno, handles, call>>

\* MessageQueue::unlink(name)
DoUnlink(names) ==
  /\ \E nm \in names :
     \E implfail \in ImplFor(nm) :
       LET u == unlink(kernel, errno, nm, implfail)
       IN /\ kernel' = u.w.k
          /\ errno' = u.w.e
          /\ last' = [Rec("unlink", 0) EXCEPT !.name = nm, !.res = u.res]
  /\ UNCHANGED <<handles, call>>

\* the messages of the queue bound to the name (none when none is bound)
HeldUnder(k, nm) ==
  IF nm \in DOMAIN k.names THEN (IF k.names[nm] # 0 THEN k.msgs[k.names[nm]] ELSE <<>>) ELSE <<>>

\* auto ret = Builder().set_mode(..).set_type(..).set_name(..).reset(..).build();
\* the record keeps in cleared what the queue under the name held before
DoBuild(o, names, modes, types, envs) ==
  /\ ~handles[o].alive /\ Idle(o)
  /\ \E nm \in names, md \in modes, ty \in types, reset \in {"unset", "false", "true"} :
     \E envfail \in EnvsFor(nm, envs), implfail \in ImplFor(nm) :
       LET b == build(kernel, errno, nm, md, ty, reset, envfail, implfail)
       IN Commit(o, b.w, [Rec("build", o) EXCEPT !.name = nm, !.res = b.res, !.attempted = b.attempted,
                                                !.i = IF reset = "true" THEN 1 ELSE 0,
                                                !.cleared = HeldUnder(kernel, nm)])
  /\ UNCHANGED call

OneSeq == {[kind |-> "stl", buf |-> <<>>], [kind |-> "stl", buf |-> Zeros(MsgSize + 1)]}
OnePrio == {DEFAULT}
AllEnvs == {0} \cup EnvOpenErrnos

\* ---- ownership: construction, moves, destruction, unlink; one kind of
\* message
Init == InitWith(OwnMaxMsg)

Next ==
  \/ \E o \in Objs : DoConstruct(o, OwnNames, Modes, Types, {0})
  \/ \E dst \in Objs, src \in Objs : DoMoveConstruct(dst, src)
  \/ \E dst \in Objs, src \in Objs : DoMoveAssign(dst, src)
  \/ \E o \in Objs : DoDestroy(o)
  \/ \E o \in Objs : DoSend(o, OneSeq, OnePrio)
  \/ \E o \in Objs : DoReceive(o)
  \/ \E o \in Objs : Resume(o)
  \/ DoUnlink(OwnNames)

Spec == Init /\ [][Next]_vars

\* ---- message traffic of non-blocking handles on one name: every payload
\* and priority, containers through send() alone, char arrays through the
\* send() of a round trip
InitMsg == InitWith(MaxMsg)

NextMsg ==
  \/ \E o \in Objs : DoConstruct(o, OwnNames, {NON_BLOCKING}, Types, {0})
  \/ \E o \in Objs : DoSend(o, StlInputs, PrioInputs)
  \/ \E o \in Objs : DoReceive(o)
  \/ \E o \in Objs : RoundTrip(o, CstrInputs, PrioInputs)

SpecMsg == InitMsg /\ [][NextMsg]_vars

\* ---- the calls of handles of every mode and direction on one name, next
\* to each other; one kind of message
NextCalls ==
  \/ \E o \in Objs : DoConstruct(o, OwnNames, Modes, Types, {0})
  \/ \E o \in Objs : DoSend(o, OneSeq, OnePrio)
  \/ \E o \in Objs : DoReceive(o)
  \/ \E o \in Objs : Resume(o)
  \/ \E o \in Objs : ClearBegin(o)
  \/ \E o \in Objs : ClearStep(o)
  \/ \E o \in Objs : DoSize(o)
  \/ \E o \in Objs : DoMode(o)

SpecCalls == InitMsg /\ [][NextCalls]_vars

\* ---- clear() next to the sends and receives of another handle on the
\* same queue; the thread inside the loop of clear() is scheduled again and
\* again
NextLoop ==
  \/ \E o \in Objs : DoConstruct(o, OwnNames, Modes, {BIDIRECTIONAL}, {0})
  \/ \E o \in Objs : DoSend(o, OneSeq, OnePrio)
  \/ \E o \in Objs : DoReceive(o)
  \/ \E o \in Objs : Resume(o)
  \/ \E o \in Objs : ClearBegin(o)
  \/ \E o \in Objs : ClearStep(o)

SpecLoop == InitMsg /\ [][NextLoop]_vars /\ \A o \in Objs : WF_vars(ClearStep(o))

\* ---- the Builder and unlink
NextBuild ==
  \/ \E o \in Objs : DoBuild(o, NameInputs, Modes, Types, AllEnvs)
  \/ \E o \in Objs : DoConstruct(o, OwnNames, {NON_BLOCKING}, {BIDIRECTIONAL}, {0})
  \/ \E o \in Objs : DoDestroy(o)
  \/ \E o \in Objs : DoSend(o, OneSeq, OnePrio)
  \/ DoUnlink(NameInputs)

SpecBuild == Init /\ [][NextBuild]_vars

\* ---- the arguments of send(): payloads with zero bytes, priorities over
\* the whole range of unsigned int; the queue takes one message of up to
\* ArgMsgSize bytes
InitArgs ==
  /\ kernel = [KernelInit(OwnMaxMsg) EXCEPT !.msgsize = ArgMsgSize]
  /\ errno = 0
  /\ handles = [o \in Objs |-> DeadObj]
  /\ call = [o \in Objs |-> NoCall]
  /\ last = Rec("init", 0)

NextArgs ==
  \/ \E o \in Objs : DoConstruct(o, OwnNames, {NON_BLOCKING}, {BIDIRECTIONAL}, {0})
  \/ \E o \in Objs : SendArgs(o, SeqArgs, {NoArg})
  \/ \E o \in Objs : SendArgs(o, {NoSeq}, PrioArgs)
  \/ \E o \in Objs : DoReceive(o)

SpecArgs == InitArgs /\ [][NextArgs]_vars

\* ---- names: construction under well-formed and malformed names
InitNames ==
  /\ kernel = [KernelInit(OwnMaxMsg) EXCEPT !.names = [n \in KnownNames |-> 0]]
  /\ errno = 0
  /\ handles = [o \in Objs |-> DeadObj]
  /\ call = [o \in Objs |-> NoCall]
  /\ last = Rec("init", 0)

NextNames ==
  \/ \E o \in Objs : DoConstruct(o, NameArgs, {NON_BLOCKING}, Types, {0})
  \/ \E o \in Objs : DoDestroy(o)

SpecNames == InitNames /\ [][NextNames]_vars

\* ---- clear() as a whole on queues filled with messages of both
\* priorities by handles of every mode and direction
NextClear ==
  \/ \E o \in Objs : DoConstruct(o, OwnNames, Modes, Types, {0})
  \/ \E o \in Objs : DoSend(o, OneSeq, PrioInputs)
  \/ \E o \in Objs : Resume(o)
  \/ \E o \in Objs : DoClear(o)

SpecClear == InitMsg /\ [][NextClear]_vars

\* ---- failing calls of every kind: opens that the environment or the
\* permissions refuse, sends and receives on handles of the wrong direction,
\* on full and empty queues and on moved-from handles, size() on moved-from
\* handles, unlink of names that are unbound, foreign or malformed
NextErr ==
  \/ \E o \in Objs : DoConstruct(o, OwnNames \cup ForeignNames, {NON_BLOCKING}, Types, AllEnvs)
  \/ \E dst \in Objs, src \in Objs : DoMoveConstruct(dst, src)
  \/ \E o \in Objs : DoDestroy(o)
  \/ \E o \in Objs : DoSend(o, OneSeq, OnePrio)
  \/ \E o \in Objs : DoReceive(o)
  \/ \E o \in Objs : DoSize(o)
  \/ DoUnlink(NameInputs)

SpecErr == Init /\ [][NextErr]_vars

\* ---- queues with different limits: the name is unlinked and opened
\* again after the system defaults have changed, while handles on the old
\* queue live on, are moved and are used
NextAttr ==
  \/ \E o \in Objs : DoConstruct(o, OwnNames, {NON_BLOCKING}, {BIDIRECTIONAL}, {0})
  \/ \E dst \in Objs, src \in Objs : DoMoveConstruct(dst, src)
  \/ \E dst \in Objs, src \in Objs : DoMoveAssign(dst, src)
  \/ \E o \in Objs : DoDestroy(o)
  \/ \E o \in Objs : DoSend(o, OneSeq, OnePrio)
  \/ \E o \in Objs : DoReceive(o)
  \/ DoUnlink(OwnNames)
  \/ SetDefaults

SpecAttr == Init /\ [][NextAttr]_vars

\* ---- handles of every mode and direction, opened in every form of the
\* constructor call on one name, used and moved
NextMode ==
  \/ \E o \in Objs : DoOpen(o, OwnNames, Modes, Types)
  \/ \E dst \in Objs, src \in Objs : DoMoveConstruct(dst, src)
  \/ \E dst \in Objs, src \in Objs : DoMoveAssign(dst, src)
  \/ \E o \in Objs : DoSend(o, OneSeq, OnePrio)
  \/ \E o \in Objs : DoReceive(o)
  \/ \E o \in Objs : Resume(o)
  \/ \E o \in Objs : DoClear(o)
  \/ \E o \in Objs : DoMode(o)

SpecMode == Init /\ [][NextMode]_vars

\* ---- producer and consumer threads on one name (tests.cpp,
\* ProducerConsumer): each thread opens its own handle; the producer sends
\* one payload and returns; the consumer polls receive() until it succeeds,
\* receives once more, and returns. call[o].op is the thread's position:
\* "none" (not started), then "open"/"sent" or "polling"/"got"/"checked",
\* then "done"; call[o].m is the payload the producer sent, call[o].i is 1
\* once a poll of the consumer has failed.
Producer == 1
Consumer == 2
At(o, pos) == call[o].op = pos
Goto(o, pos) == call' = [call EXCEPT ![o].op = pos]

ProducerOpen ==
  /\ At(Producer, "none")
  /\ \E md \in Modes :
       LET c == Construct(kernel, errno, NameA, md, SENDER, 0)
       IN /\ c.res.ok
          /\ Commit(Producer, c.w, [Rec("construct", Producer) EXCEPT !.name = NameA])
  /\ Goto(Producer, "open")

ProducerSend ==
  /\ At(Producer, "open")
  /\ \E sequence \in SeqInputs, priority \in PrioInputs :
       LET r == send(Me(Producer), sequence, priority, FALSE)
           m == [contents |-> Payload(sequence), priority |-> priority]
       IN /\ Len(m.contents) <= max_msgsize(handles[Producer])
          /\ r.res # Pending
          /\ Commit(Producer, r.w, [Rec("send", Producer) EXCEPT !.m = m, !.res = r.res])
          /\ call' = [call EXCEPT ![Producer].op = "sent", ![Producer].m = m]

ThreadExit(o, pos) ==
  /\ At(o, pos)
  /\ LET d == Destruct(Me(o))
     IN Commit(o, d.w, [Rec("destroy", o) EXCEPT !.res = d.res, !.closed = d.closed])
  /\ Goto(o, "done")

ConsumerOpen ==
  /\ At(Consumer, "none")
  /\ LET c == Construct(kernel, errno, NameA, NON_BLOCKING, RECEIVER, 0)
     IN /\ c.res.ok
        /\ Commit(Consumer, c.w, [Rec("construct", Consumer) EXCEPT !.name = NameA])
  /\ Goto(Consumer, "polling")

\* while (true) if (auto ret = mq.receive(); ret) ... return;
ConsumerPoll ==
  /\ At(Consumer, "polling")
  /\ LET r == receive(Me(Consumer), FALSE)
     IN /\ r.res # Pending
        /\ Commit(Consumer, r.w, [Rec("receive", Consumer) EXCEPT !.res = r.res])
        /\ call' = [call EXCEPT ![Consumer].op = IF r.res.ok THEN "got" ELSE "polling",
                                ![Consumer].i = IF r.res.ok THEN @ ELSE 1]

\* one more receive() after the successful one
ConsumerAgain ==
  /\ At(Consumer, "got")
  /\ LET r == receive(Me(Consumer), FALSE)
     IN /\ r.res # Pending
        /\ Commit(Consumer, r.w, [Rec("receive_again", Consumer) EXCEPT !.res = r.res])
  /\ Goto(Consumer, "checked")

ProducerThread == ProducerOpen \/ ProducerSend \/ ThreadExit(Producer, "sent")
ConsumerThread == ConsumerOpen \/ ConsumerPoll \/ ConsumerAgain \/ ThreadExit(Consumer, "checked")

NextPC ==
  \/ ProducerOpen
  \/ ProducerSend
  \/ ThreadExit(Producer, "sent")
  \/ ConsumerOpen
  \/ ConsumerPoll
  \/ ConsumerAgain
  \/ ThreadExit(Consumer, "checked")

\* both threads are scheduled again and again
SpecPC == Init /\ [][NextPC]_vars /\ WF_vars(ProducerThread) /\ WF_vars(ConsumerThread)

\* ------------------------------------------------------------ the claims
\* the queue a handle's descriptor refers to (0: none) and its pending
\* messages, oldest first
QueueOf(k, h) == IF IsOpenFd(k, h.mqdes) THEN k.fds[h.mqdes].q ELSE 0
PendingOf(k, h) == IF QueueOf(k, h) = 0 THEN <<>> ELSE k.msgs[QueueOf(k, h)]
MayBoth(k, h) == IsOpenFd(k, h.mqdes) /\ k.fds[h.mqdes].acc = O_RDWR

IsRoundTrip(rec) == rec.op = "round_trip" /\ rec.sent.ok

\* C1 as stated: in every reachable queue state in which the send succeeds,
\* send(m, p) directly followed by receive() on the same bidirectional
\* handle returns exactly (m, p), and size() is back at its value before
\* the send.
C1_RoundTripAnyState ==
  (IsRoundTrip(last) /\ MayBoth(kernel, handles[last.o]))
    => /\ last.res.ok
       /\ last.res.msg = last.m
       /\ last.post = last.pre

\* C1 amended: the receive() after a successful send(m, p) succeeds and
\* size() is back at its value before the send; the message returned is
\* exactly (m, p) when no message with a priority >= p was pending before
\* the send (otherwise it is a message that was pending before).
C1_RoundTripStep ==
  \A o \in Objs :
    (IsRoundTrip(last') /\ last'.o = o /\ MayBoth(kernel, handles[o]))
      => /\ last'.res.ok
         /\ last'.post = last'.pre
         /\ last'.pre = Len(PendingOf(kernel, handles[o]))
         /\ IF \A i \in 1..Len(PendingOf(kernel, handles[o])) :
                 PendingOf(kernel, handles[o])[i].priority < last'.m.priority
            THEN last'.res.msg = last'.m /\ kernel'.msgs = kernel.msgs
            ELSE \E i \in 1..Len(PendingOf(kernel, handles[o])) :
                   last'.res.msg = PendingOf(kernel, handles[o])[i]

C1_RoundTrip == [][C1_RoundTripStep]_vars

\* C1 witness: a round trip on a bidirectional handle that returned its own
\* one-byte message of priority DEFAULT past a pending one of lower priority
C1_Witness ==
  /\ IsRoundTrip(last) /\ MayBoth(kernel, handles[last.o])
  /\ last.res.ok /\ last.res.msg = last.m
  /\ last.m.contents # <<>> /\ last.m.priority = DEFAULT
  /\ last.pre >= 1 /\ last.post = last.pre

\* C2: every successful receive() returns the pending message of highest
\* priority and, among those of that priority, the one sent earliest, and
\* removes exactly that message, whichever handles sent and receive.
C2_DeliveryStep ==
  \A o \in Objs :
    (last'.op = "receive" /\ last'.o = o /\ last'.res.ok)
      => LET msgs == PendingOf(kernel, handles[o])
         IN \E i \in 1..Len(msgs) :
              /\ last'.res.msg = msgs[i]
              /\ \A j \in 1..Len(msgs) : msgs[j].priority <= msgs[i].priority
              /\ \A j \in 1..(i - 1) : msgs[j].priority < msgs[i].priority
              /\ PendingOf(kernel', handles'[o]) = RemoveAt(msgs, i)

C2_DeliveryOrder == [][C2_DeliveryStep]_vars

\* C2 witness: a receive-only handle got a message of priority DEFAULT while
\* one of lower priority stays pending, a send-only handle being open on
\* the same queue
C2_Witness ==
  /\ last.op = "receive" /\ last.res.ok
  /\ handles[last.o].type = RECEIVER
  /\ last.res.msg.priority = DEFAULT
  /\ PendingOf(kernel, handles[last.o]) # <<>>
  /\ PendingOf(kernel, handles[last.o])[1].priority < DEFAULT
  /\ \E o \in Objs : handles[o].alive /\ handles[o].type = SENDER
                      /\ QueueOf(kernel, handles[o]) = QueueOf(kernel, handles[last.o])

\* C3 as stated: when a receive() inside clear() has failed, clear()
\* returns that receive's error.
C3_ClearSurfacesFailure ==
  (last.op = "clear" /\ last.failed # NoErr)
    => (~last.res.ok /\ last.res.err = last.failed)

\* a step in which handle o enters receive() / send()
CallsReceive(o) ==
  /\ Idle(o) /\ handles[o].alive
  /\ last'.o = o /\ last'.op \in {"receive", "receive_suspended"}
CallsSend(o) ==
  /\ Idle(o) /\ handles[o].alive
  /\ last'.o = o /\ last'.op \in {"send", "send_suspended"}

NonBlockingOpen(k, h) == IsOpenFd(k, h.mqdes) /\ k.fds[h.mqdes].nonblock
\* the causes the claims name: <<operation, errno, text>>
QueueIsEmpty == Unexpected(<<3, 11, "queue is empty">>)
QueueIsFull == Unexpected(<<2, 11, "queue is full">>)
NotForReceiving ==
  Unexpected(<<3, 9, "invalid mq fd, or the queue is not opened for receiving">>)
NotForSending ==
  Unexpected(<<2, 9, "invalid mq fd, or the queue is not opened for sending">>)

\* C7 as stated: receive() on a non-blocking handle whose queue is empty
\* returns at once with "operation 3, errno 11: queue is empty" and changes
\* neither the queues nor the handle.
C7_AnyHandleStep ==
  \A o \in Objs :
    (CallsReceive(o) /\ NonBlockingOpen(kernel, handles[o]) /\ PendingOf(kernel, handles[o]) = <<>>)
      => /\ last'.op = "receive"
         /\ last'.res = QueueIsEmpty
         /\ kernel' = kernel /\ handles'[o] = handles[o]

C7_AnyHandle == [][C7_AnyHandleStep]_vars

\* C7 amended: the same for a non-blocking handle that is open for
\* receiving (ReceiveOnly or Bidirectional).
C7_ReceivingHandleStep ==
  \A o \in Objs :
    (/\ CallsReceive(o) /\ NonBlockingOpen(kernel, handles[o])
     /\ kernel.fds[handles[o].mqdes].acc # O_WRONLY
     /\ PendingOf(kernel, handles[o]) = <<>>)
      => /\ last'.op = "receive"
         /\ last'.res = QueueIsEmpty
         /\ kernel' = kernel /\ handles'[o] = handles[o]

C7_NonBlockingEmpty == [][C7_ReceivingHandleStep]_vars

\* C7 witness: a receive-only non-blocking handle got "queue is empty" and
\* is still open on its empty queue
C7_Witness ==
  /\ last.op = "receive" /\ last.res = QueueIsEmpty
  /\ handles[last.o].type = RECEIVER
  /\ NonBlockingOpen(kernel, handles[last.o])
  /\ PendingOf(kernel, handles[last.o]) = <<>>

\* C8 as stated: on a non-blocking handle a send succeeds while fewer than
\* max_size() messages are pending; when size() = max_size() it fails at
\* once with "operation 2, errno 11: queue is full" and enqueues nothing;
\* never more than max_size() messages are pending.
C8_AnyHandleStep ==
  \A o \in Objs :
    (CallsSend(o) /\ NonBlockingOpen(kernel, handles[o]))
      => /\ last'.op = "send"
         /\ Len(PendingOf(kernel, handles[o])) <= max_size(handles[o])
         /\ IF Len(PendingOf(kernel, handles[o])) = max_size(handles[o])
            THEN last'.res = QueueIsFull /\ kernel' = kernel
            ELSE last'.res.ok /\ PendingOf(kernel', handles'[o]) = Append(PendingOf(kernel, handles[o]), last'.m)

C8_AnyHandle == [][C8_AnyHandleStep]_vars

\* C8 amended: the same for a non-blocking handle that is open for sending
\* (SendOnly or Bidirectional) and payloads of at most max_msgsize() bytes.
C8_SendingHandleStep ==
  \A o \in Objs :
    (/\ CallsSend(o) /\ NonBlockingOpen(kernel, handles[o])
     /\ kernel.fds[handles[o].mqdes].acc # O_RDONLY
     /\ Len(last'.m.contents) <= max_msgsize(handles[o]))
      => /\ last'.op = "send"
         /\ Len(PendingOf(kernel, handles[o])) <= max_size(handles[o])
         /\ IF Len(PendingOf(kernel, handles[o])) = max_size(handles[o])
            THEN last'.res = QueueIsFull /\ kernel' = kernel
            ELSE last'.res.ok /\ PendingOf(kernel', handles'[o]) = Append(PendingOf(kernel, handles[o]), last'.m)

C8_NonBlockingFull == [][C8_SendingHandleStep]_vars

\* C8 witness: a send-only non-blocking handle got "queue is full" on a
\* queue holding max_size() messages
C8_Witness ==
  /\ last.op = "send" /\ last.res = QueueIsFull
  /\ handles[last.o].type = SENDER
  /\ NonBlockingOpen(kernel, handles[last.o])
  /\ max_size(handles[last.o]) >= 2
  /\ Len(PendingOf(kernel, handles[last.o])) = max_size(handles[last.o])

\* C9: every receive() on a SendOnly handle fails with the Receive cause
\* "invalid mq fd, or the queue is not opened for receiving", every send()
\* on a ReceiveOnly handle with the Send cause "invalid mq fd, or the queue
\* is not opened for sending", whatever is pending; the call changes
\* neither the queues nor the handle.
C9_DirectionStep ==
  \A o \in Objs :
    /\ (CallsReceive(o) /\ type(handles[o]) = SENDER)
         => /\ last'.op = "receive" /\ last'.res = NotForReceiving
            /\ kernel' = kernel /\ handles'[o] = handles[o]
    /\ (CallsSend(o) /\ type(handles[o]) = RECEIVER)
         => /\ last'.op = "send" /\ last'.res = NotForSending
            /\ kernel' = kernel /\ handles'[o] = handles[o]

C9_Direction == [][C9_DirectionStep]_vars

\* C9 witness: a blocking send-only handle, open on a queue with a pending
\* message, was refused a receive()
C9_Witness ==
  /\ last.op = "receive" /\ last.res = NotForReceiving
  /\ handles[last.o].type = SENDER
  /\ IsOpenFd(kernel, handles[last.o].mqdes)
  /\ ~kernel.fds[handles[last.o].mqdes].nonblock
  /\ PendingOf(kernel, handles[last.o]) # <<>>

\* ---- ownership of descriptors
Holders(fd) == {o \in Objs : handles[o].alive /\ handles[o].mqdes = fd}
AllDestroyed == \A o \in Objs : ~handles[o].alive
IsMove(rec) == rec.op \in {"move_construct", "move_assign"} /\ rec.o # rec.o2

\* every open descriptor is held by exactly one handle object, no handle
\* holds a closed one, and none is open once all handles are destroyed
C4_Owned ==
  /\ \A fd \in Fds : IF IsOpenFd(kernel, fd) THEN Cardinality(Holders(fd)) = 1 ELSE Holders(fd) = {}
  /\ \A o \in Objs : handles[o].alive => handles[o].mqdes \in Fds \cup {NoFd}
  /\ AllDestroyed => \A fd \in Fds : ~IsOpenFd(kernel, fd)

\* a descriptor is closed only by the destruction of the handle that holds
\* it, the close succeeds (it is open then: no second close), the
\* destruction of a handle with descriptor -1 calls no close, and moves
\* leave the kernel alone
C4_ReleaseStep ==
  /\ \A fd \in Fds :
       (IsOpenFd(kernel, fd) /\ ~IsOpenFd(kernel', fd))
         => last'.op = "destroy" /\ last'.closed = fd /\ Holders(fd) = {last'.o}
  /\ last'.op = "destroy"
       => /\ last'.res.ok
          /\ last'.closed = handles[last'.o].mqdes
          /\ ~handles'[last'.o].alive
          /\ IF handles[last'.o].mqdes = NoFd
             THEN kernel' = kernel
             ELSE /\ IsOpenFd(kernel, last'.closed) /\ ~IsOpenFd(kernel', last'.closed)
                  /\ \A fd \in Fds \ {last'.closed} : kernel'.fds[fd] = kernel.fds[fd]
  /\ last'.op \in {"move_construct", "move_assign"} => kernel' = kernel

\* C4: exactly-once release. Over any sequence of constructions, move
\* constructions, move assignments and destructions every descriptor a
\* handle obtained is held by exactly one handle until the destruction of
\* that handle closes it; the close always succeeds (no descriptor is
\* closed twice), destroying a handle with descriptor -1 performs no close,
\* and no descriptor is open when all handle objects are destroyed.
C4_ExactlyOnce == []C4_Owned /\ [][C4_ReleaseStep]_vars

\* C4 witness: a moved-from handle (descriptor -1) was destroyed without a
\* close while the descriptor it gave away is open in another handle
C4_Witness ==
  /\ last.op = "destroy" /\ last.res.ok /\ last.closed = NoFd
  /\ \E o \in Objs : handles[o].alive /\ IsOpenFd(kernel, handles[o].mqdes)

C5_NoSharedDescriptor ==
  \A o1 \in Objs, o2 \in Objs :
    (o1 # o2 /\ handles[o1].alive /\ handles[o2].alive /\ handles[o1].mqdes = handles[o2].mqdes)
      => handles[o1].mqdes = NoFd

C5_TransferStep ==
  \A dst \in Objs, src \in Objs :
    (/\ dst # src /\ last'.o = dst /\ last'.o2 = src
     /\ handles[src].alive /\ handles[src].mqdes # NoFd)
      => /\ kernel' = kernel
         /\ handles'[dst].mqdes = handles[src].mqdes
         /\ last'.op = "move_construct"
              => /\ handles'[src].mqdes = NoFd
                 /\ Destruct(W(kernel', errno', handles'[src])).closed = NoFd
                 /\ Destruct(W(kernel', errno', handles'[src])).w.k = kernel'
         /\ last'.op = "move_assign"
              => /\ handles'[src].mqdes = handles[dst].mqdes
                 /\ Destruct(W(kernel', errno', handles'[src])).closed = handles[dst].mqdes
                 /\ Destruct(W(kernel', errno', handles'[src])).res.ok

MovesInto(dst, src) ==
  /\ dst # src /\ last'.op \in {"move_construct", "move_assign"}
  /\ last'.o = dst /\ last'.o2 = src
  /\ IsOpenFd(kernel, handles[src].mqdes)

\* b shows what a showed, the queues are untouched, b is on a's queue
C6_SameObservers(a, b) ==
  /\ name(b) = name(a)
  /\ type(b) = type(a)
  /\ max_size(b) = max_size(a)
  /\ max_msgsize(b) = max_msgsize(a)
  /\ mode(W(kernel, errno, a)).res.ok
  /\ mode(W(kernel', errno', b)).res = mode(W(kernel, errno, a)).res
  /\ kernel'.msgs = kernel.msgs
  /\ QueueOf(kernel', b) = QueueOf(kernel, a)

FittingInputs(h) == {sequence \in StlInputs : Len(Payload(sequence)) <= max_msgsize(h)}

\* send(sequence, DEFAULT) and then receive() through b both succeed, on
\* the queue q
SendReceiveSucceed(b, q, sequence) ==
  LET s == send(W(kernel', errno', b), sequence, DEFAULT, FALSE)
      r == receive(s.w, FALSE)
  IN /\ s.res.ok /\ r.res.ok
     /\ s.w.k.msgs[q] = Append(kernel.msgs[q], [contents |-> Payload(sequence), priority |-> DEFAULT])
     /\ Len(r.w.k.msgs[q]) = Len(kernel.msgs[q])

\* C6 as stated: after moving open handle a into b, b's name, mode, type,
\* max_size and max_msgsize are those a reported, the pending messages are
\* unchanged, and a following send and receive through b succeed on the
\* same queue.
C6_AnyHandleStep ==
  \A dst \in Objs, src \in Objs :
    MovesInto(dst, src)
      => /\ C6_SameObservers(handles[src], handles'[dst])
         /\ \A sequence \in FittingInputs(handles[src]) :
              SendReceiveSucceed(handles'[dst], QueueOf(kernel, handles[src]), sequence)

C6_AnyHandle == [][C6_AnyHandleStep]_vars

\* C6 amended: ... and a following send and a following receive through b
\* have the outcome and the effect they would have had through a before
\* the move; they succeed, on the same queue, when a is Bidirectional and
\* fewer than max_size() messages are pending.
C6_MoveStep ==
  \A dst \in Objs, src \in Objs :
    MovesInto(dst, src)
      => LET a == handles[src]
             b == handles'[dst]
         IN /\ C6_SameObservers(a, b)
            /\ \A sequence \in SeqInputs, priority \in PrioInputs :
                 /\ send(W(kernel', errno', b), sequence, priority, FALSE).res
                      = send(W(kernel, errno, a), sequence, priority, FALSE).res
                 /\ send(W(kernel', errno', b), sequence, priority, FALSE).w.k
                      = send(W(kernel, errno, a), sequence, priority, FALSE).w.k
            /\ receive(W(kernel', errno', b), FALSE).res = receive(W(kernel, errno, a), FALSE).res
            /\ receive(W(kernel', errno', b), FALSE).w.k = receive(W(kernel, errno, a), FALSE).w.k
            /\ (type(a) = BIDIRECTIONAL /\ Len(PendingOf(kernel, a)) < max_size(a))
                 => \A sequence \in FittingInputs(a) :
                      SendReceiveSucceed(b, QueueOf(kernel, a), sequence)

C6_MovePreserves == [][C6_MoveStep]_vars

\* C6 witness: a move assignment between two open handles on different
\* queues; the destination is Bidirectional now, its queue is empty, and
\* the other queue holds a message
C6_Witness ==
  /\ last.op = "move_assign" /\ last.o # last.o2
  /\ IsOpenFd(kernel, handles[last.o].mqdes)
  /\ IsOpenFd(kernel, handles[last.o2].mqdes)
  /\ QueueOf(kernel, handles[last.o]) # QueueOf(kernel, handles[last.o2])
  /\ type(handles[last.o]) = BIDIRECTIONAL
  /\ type(handles[last.o2]) # BIDIRECTIONAL
  /\ PendingOf(kernel, handles[last.o]) = <<>>
  /\ PendingOf(kernel, handles[last.o2]) # <<>>

\* ---- the Builder's reset
\* a step of build() with reset(true) for the name nm
BuildsWithReset(nm) == last'.op = "build" /\ last'.i = 1 /\ last'.name = nm

\* what mq_unlink(nm) answers in the state before the step (the errno of a
\* name without leading slash is the libc's choice)
UnlinkErrnos(nm) == {mq_unlink(kernel, nm, implfail).err : implfail \in ImplFor(nm)}
UnlinkFails(nm) == \A implfail \in ImplFor(nm) : mq_unlink(kernel, nm, implfail).ret # 0

\* a queue exists under the name
Bound(k, nm) == nm \in ForeignNames \/ (nm \in OwnNames /\ k.names[nm] # 0)

IsUnlinkCause(res) ==
  ~res.ok /\ res.thrown = "" /\ Len(res.err) = 3 /\ res.err[1] = 5

\* unlink goes first: when it succeeds the constructor runs, and a handle it
\* yields is on a queue created after the unlink, which holds no message
C10_UnlinkFirst(nm) ==
  ~UnlinkFails(nm)
    => /\ last'.attempted
       /\ last'.res.ok => /\ IsOpenFd(kernel', handles'[last'.o].mqdes)
                          /\ PendingOf(kernel', handles'[last'.o]) = <<>>

\* C10 as stated: build() with reset(true) attempts the unlink first; when
\* the unlink fails, build() returns the Unlink cause and attempts no
\* open, no queue is created, and no queue exists under the name after it.
C10_NoQueueAfterStep ==
  \A nm \in NameInputs :
    BuildsWithReset(nm)
      => /\ C10_UnlinkFirst(nm)
         /\ UnlinkFails(nm)
              => /\ ~last'.attempted
                 /\ IsUnlinkCause(last'.res)
                 /\ kernel' = kernel /\ handles' = handles
                 /\ ~Bound(kernel', nm)

C10_NoQueueAfter == [][C10_NoQueueAfterStep]_vars

\* C10 amended: ... when the unlink fails, build() attempts no open,
\* creates no queue and no handle, and leaves the name as it was: no
\* queue exists under it when the failure is "no message queue found"
\* (errno 2), the queue of another user still exists under it when the
\* failure is "insufficient permission" (errno 13). build() returns the
\* Unlink cause when parse_err has a text for the errno; the errno 22 that
\* mq_unlink may give for a name without leading slash has none, and
\* build() ends with std::out_of_range.
C10_ResetStep ==
  \A nm \in NameInputs :
    BuildsWithReset(nm)
      => /\ C10_UnlinkFirst(nm)
         /\ UnlinkFails(nm)
              => /\ ~last'.attempted
                 /\ kernel' = kernel /\ handles' = handles
                 /\ Bound(kernel', nm) = Bound(kernel, nm)
                 /\ \E en \in UnlinkErrnos(nm) :
                      /\ Bound(kernel', nm) <=> en = 13
                      /\ IF en \in {13, 36, 2}
                         THEN last'.res = Unexpected(<<5, en, err_map(OpUnlink, en)>>)
                         ELSE last'.res.thrown = "out_of_range"

C10_ResetBuild == [][C10_ResetStep]_vars

\* C10 witness: build() with reset(true) for a name of the caller's own
\* that is bound to no queue returned "no message queue found under this
\* name" and opened nothing, while a handle is still open on the queue
\* that was unlinked from the name before
C10_Witness ==
  /\ last.op = "build" /\ last.i = 1 /\ ~last.attempted
  /\ last.name = NameA
  /\ last.res = Unexpected(<<5, 2, "no message queue found under this name">>)
  /\ ~Bound(kernel, NameA)
  /\ ~handles[last.o].alive
  /\ \E o \in Objs : IsOpenFd(kernel, handles[o].mqdes) /\ PendingOf(kernel, handles[o]) # <<>>

\* ---- the Builder's open step
\* C11 as stated: once build() has entered the open step it never ends
\* with an exception or a failed assertion: it returns the handle, or an
\* error Result that carries the cause of the failure.
C11_OpenFailureReturned ==
  (last.op = "build" /\ last.attempted)
    => /\ last.res.thrown = ""
       /\ ~last.res.ok => last.res.err # NoErr

\* ---- unlink and the handles that are open
NoQueueFound == Unexpected(<<5, 2, "no message queue found under this name">>)
Named(k, q) == \E n \in DOMAIN k.names : k.names[n] = q
OpenOn(k, q) == {fd \in Fds : k.fds[fd].q = q}

\* a successful unlink(nm) takes the name from its queue and leaves the
\* handles, the descriptors and the messages of every queue that is open
\* as they are; an unlink(nm) that follows it fails with "no message
\* queue found under this name"
C12_UnlinkStep ==
  \A nm \in OwnNames :
    (last'.op = "unlink" /\ last'.name = nm)
      => IF kernel.names[nm] # 0
         THEN /\ last'.res.ok
              /\ kernel'.names[nm] = 0
              /\ handles' = handles /\ kernel'.fds = kernel.fds
              /\ \A q \in QIds : OpenOn(kernel, q) # {} => kernel'.msgs[q] = kernel.msgs[q]
              /\ unlink(kernel', errno', nm, 0).res = NoQueueFound
         ELSE last'.res = NoQueueFound /\ kernel' = kernel /\ handles' = handles

\* a handle whose queue has lost its name still works on that queue: a
\* receive returns and removes its next message, a send appends to it,
\* size() counts it, and no other queue is touched
C12_OldQueueStep ==
  \A o \in Objs :
    LET h == handles[o]
        q == QueueOf(kernel, h)
    IN (q # 0 /\ ~Named(kernel, q) /\ last'.o = o /\ last'.op \in {"send", "receive"} /\ Idle(o))
         => /\ size(Me(o)).res = OkNum(Len(kernel.msgs[q]))
            /\ \A q2 \in QIds \ {q} : kernel'.msgs[q2] = kernel.msgs[q2]
            /\ QueueOf(kernel', handles'[o]) = q
            /\ (last'.op = "receive" /\ kernel.fds[h.mqdes].acc # O_WRONLY /\ kernel.msgs[q] # <<>>)
                 => /\ last'.res = OkMsg(kernel.msgs[q][NextIndex(kernel.msgs[q])])
                    /\ kernel'.msgs[q] = RemoveAt(kernel.msgs[q], NextIndex(kernel.msgs[q]))
            /\ (/\ last'.op = "send" /\ kernel.fds[h.mqdes].acc # O_RDONLY
                /\ Len(kernel.msgs[q]) < max_size(h) /\ Len(last'.m.contents) <= max_msgsize(h))
                 => /\ last'.res.ok
                    /\ kernel'.msgs[q] = Append(kernel.msgs[q], last'.m)

\* a handle opened under a name that is bound to no queue is on a queue
\* no open handle is on, without pending messages; the queues of the open
\* handles keep theirs
C12_FreshQueueStep ==
  \A nm \in OwnNames :
    (last'.op = "construct" /\ last'.name = nm /\ last'.res.ok /\ kernel.names[nm] = 0)
      => LET q == QueueOf(kernel', handles'[last'.o])
         IN /\ q # 0 /\ kernel'.names[nm] = q
            /\ OpenOn(kernel, q) = {}
            /\ kernel'.msgs[q] = <<>>
            /\ \A q2 \in QIds : OpenOn(kernel, q2) # {} => kernel'.msgs[q2] = kernel.msgs[q2]

\* C12: after a successful unlink(name) every handle already open on the
\* queue stays valid: its send, receive and size keep operating on the
\* old queue and its pending messages; the old queue cannot be reached
\* through the name any more: a handle opened under the name afterwards
\* is on a new, empty queue, and a second unlink(name) with no open in
\* between fails with "no message queue found under this name".
C12_UnlinkKeepsHandles ==
  [][C12_UnlinkStep /\ C12_OldQueueStep /\ C12_FreshQueueStep]_vars

\* C12 witness: a handle received the message pending on its unlinked
\* queue while the name is bound to another queue, on which another handle
\* is open and which never held that message
C12_Witness ==
  /\ last.op = "receive" /\ last.res.ok
  /\ QueueOf(kernel, handles[last.o]) # 0
  /\ ~Named(kernel, QueueOf(kernel, handles[last.o]))
  /\ \E o \in Objs :
       /\ QueueOf(kernel, handles[o]) # 0
       /\ QueueOf(kernel, handles[o]) = kernel.names[NameA]
       /\ PendingOf(kernel, handles[o]) = <<>>

\* ---- handles on one name
\* a handle opened under a name that is bound to a queue is on that queue
\* and finds its messages: size() counts them, receive() returns the next
\* one
C13_AttachStep ==
  \A nm \in OwnNames :
    (last'.op = "construct" /\ last'.name = nm /\ last'.res.ok /\ kernel.names[nm] # 0)
      => LET q == kernel.names[nm]
             me == W(kernel', errno', handles'[last'.o])
         IN /\ QueueOf(kernel', handles'[last'.o]) = q
            /\ kernel'.names = kernel.names /\ kernel'.msgs = kernel.msgs
            /\ size(me).res = OkNum(Len(kernel.msgs[q]))
            /\ (type(handles'[last'.o]) # SENDER /\ kernel.msgs[q] # <<>>)
                 => receive(me, FALSE).res = OkMsg(kernel.msgs[q][NextIndex(kernel.msgs[q])])

\* a message sent through one handle is counted and received through
\* every other handle on the queue
C13_SharedStep ==
  \A o \in Objs, o2 \in Objs :
    LET q == QueueOf(kernel, handles[o])
        me2 == W(kernel', errno', handles'[o2])
    IN (/\ o2 # o /\ last'.op = "send" /\ last'.o = o /\ last'.res.ok
        /\ q # 0 /\ QueueOf(kernel, handles[o2]) = q)
         => /\ size(me2).res = OkNum(Len(kernel.msgs[q]) + 1)
            /\ type(handles[o2]) # SENDER
                 => /\ receive(me2, FALSE).res.ok
                    /\ \A i \in 1..Len(kernel.msgs[q]) : kernel.msgs[q][i].priority < last'.m.priority
                         => receive(me2, FALSE).res = OkMsg(last'.m)

\* closing a handle removes no message of a named queue and no name; only
\* unlink takes a name from its queue
C13_OutlivesStep ==
  /\ last'.op = "destroy"
       => /\ kernel'.names = kernel.names
          /\ \A q \in QIds : Named(kernel, q) => kernel'.msgs[q] = kernel.msgs[q]
  /\ \A nm \in OwnNames :
       (kernel.names[nm] # 0 /\ kernel'.names[nm] # kernel.names[nm])
         => last'.op = "unlink" /\ last'.name = nm

\* C13: handles opened under the same name with no unlink in between are
\* on the same queue, and the queue outlives its handles: a message sent
\* through one handle is counted by size() and returned by receive() on
\* every other such handle, also on one opened after the sender and every
\* other handle was closed; closing handles removes no pending message.
C13_SameQueue == [][C13_AttachStep /\ C13_SharedStep /\ C13_OutlivesStep]_vars

\* C13 witness: a handle was opened when no other handle existed and finds
\* a message pending on the queue of its name
C13_Witness ==
  /\ last.op = "construct" /\ last.res.ok
  /\ \A o \in Objs \ {last.o} : ~handles[o].alive
  /\ QueueOf(kernel, handles[last.o]) = kernel.names[last.name]
  /\ PendingOf(kernel, handles[last.o]) # <<>>

\* ---- producer and consumer
\* the consumer's successful receive returns the payload (and priority)
\* the producer sent and empties the queue; the receive after it finds
\* the queue empty
C14_ConsumeStep ==
  /\ (At(Consumer, "polling") /\ last'.op = "receive" /\ last'.res.ok)
       => /\ call[Producer].op \in {"sent", "done"}
          /\ last'.res.msg = call[Producer].m
          /\ \A q \in QIds : kernel'.msgs[q] = <<>>
  /\ (At(Consumer, "polling") /\ last'.op = "receive" /\ ~last'.res.ok)
       => last'.res = QueueIsEmpty /\ kernel' = kernel
  /\ last'.op = "receive_again" => last'.res = QueueIsEmpty

ConsumerDone == At(Consumer, "done")

\* C14: producer and consumer on one name, queue empty at the start: in
\* every interleaving the consumer's successful receive returns exactly
\* the payload sent, the message is delivered to one receive only (the
\* receive after it finds the queue empty), and with both threads scheduled
\* fairly the consumer's loop ends.
C14_ProducerConsumer == [][C14_ConsumeStep]_vars /\ <>ConsumerDone

\* C14 witness: the consumer polled an empty queue before the producer had
\* sent, later got the one-byte payload, found the queue empty after it,
\* and returned
C14_Witness ==
  /\ ConsumerDone /\ At(Producer, "done")
  /\ call[Consumer].i = 1
  /\ call[Producer].m.contents # <<>>
  /\ last.op = "destroy"

\* ---- blocking calls with no signal arriving. The kernel hands a message
\* that arrives to a thread suspended in mq_receive, and room that appears
\* to a thread suspended in mq_send: a call that starts later does not get
\* ahead of them, and the suspended thread is woken.
Waiting(kind, q) == {o \in Objs : call[o].op = kind /\ QueueOf(kernel, handles[o]) = q}

\* nothing in the queue of o is due to a suspended call of that kind
NotAhead(o, kind) ==
  LET q == QueueOf(kernel, handles[o])
  IN IF q = 0 \/ Waiting(kind, q) = {} THEN TRUE
     ELSE IF kind = "receive" THEN kernel.msgs[q] = <<>>
     ELSE Len(kernel.msgs[q]) >= kernel.qattr[q].maxmsg

IsInterrupted(res) == ~res.ok /\ Len(res.err) = 3 /\ res.err[2] = EINTR

\* the suspended call of o returns, no signal having interrupted it
Wake(o) == Resume(o) /\ ~IsInterrupted(last'.res)

NextBlock ==
  \/ \E o \in Objs : DoConstruct(o, OwnNames, Modes, Types, {0})
  \/ \E o \in Objs : NotAhead(o, "send") /\ DoSend(o, OneSeq, OnePrio)
  \/ \E o \in Objs : NotAhead(o, "receive") /\ DoReceive(o)
  \/ \E o \in Objs : Wake(o)

SpecBlock == Init /\ [][NextBlock]_vars /\ \A o \in Objs : WF_vars(Wake(o))

BlockingOpen(k, h) == IsOpenFd(k, h.mqdes) /\ ~k.fds[h.mqdes].nonblock
Room(k, h) == k.qattr[QueueOf(k, h)].maxmsg - Len(PendingOf(k, h))

\* a call on a blocking handle never returns "queue is empty" or "queue
\* is full"; receive() on an empty queue and send() on a full one suspend
\* and change nothing; a suspended call returns only when the queue holds
\* a message (has room), and then with success
C15_SuspendStep ==
  \A o \in Objs :
    LET h == handles[o]
        msgs == PendingOf(kernel, h)
    IN (last'.o = o /\ BlockingOpen(kernel, h))
         => /\ last'.res \notin {QueueIsEmpty, QueueIsFull}
            /\ (CallsReceive(o) /\ type(h) # SENDER /\ msgs = <<>>)
                 => /\ last'.op = "receive_suspended" /\ call'[o].op = "receive"
                    /\ kernel' = kernel /\ handles' = handles
            /\ (CallsSend(o) /\ type(h) # RECEIVER /\ Room(kernel, h) = 0
                /\ Len(last'.m.contents) <= max_msgsize(h))
                 => /\ last'.op = "send_suspended" /\ call'[o].op = "send"
                    /\ kernel' = kernel /\ handles' = handles
            /\ call[o].op = "receive"
                 => /\ msgs # <<>> /\ call'[o].op = "none"
                    /\ last'.res = OkMsg(msgs[NextIndex(msgs)])
                    /\ PendingOf(kernel', handles'[o]) = RemoveAt(msgs, NextIndex(msgs))
            /\ call[o].op = "send"
                 => /\ Room(kernel, h) > 0 /\ call'[o].op = "none"
                    /\ last'.res.ok
                    /\ PendingOf(kernel', handles'[o]) = Append(msgs, call[o].m)

\* o is suspended in receive() (send()) and its queue holds a message
\* (has room) for every call suspended on it
ReceiveDue(o) ==
  /\ call[o].op = "receive"
  /\ Len(PendingOf(kernel, handles[o])) >= Cardinality(Waiting("receive", QueueOf(kernel, handles[o])))
SendDue(o) ==
  /\ call[o].op = "send"
  /\ Room(kernel, handles[o]) >= Cardinality(Waiting("send", QueueOf(kernel, handles[o])))
Returned(o) == call[o].op = "none"

\* C15: on a blocking handle receive() on an empty queue and send() on a
\* full queue never return "queue is empty" / "queue is full": the call
\* stays suspended while the queue is empty / full, and, no signal
\* arriving, a suspended receive returns a message once another handle
\* has sent one, a suspended send succeeds once another handle has
\* received one.
C15_Blocking ==
  /\ [][C15_SuspendStep]_vars
  /\ \A o \in Objs : (ReceiveDue(o) ~> Returned(o)) /\ (SendDue(o) ~> Returned(o))

\* C15 witness: a receive() that was suspended on an empty queue has
\* returned the message another handle sent, which is a blocking handle
\* too and is suspended in a send() now
C15_Witness ==
  /\ last.op = "receive" /\ last.res.ok
  /\ BlockingOpen(kernel, handles[last.o])
  /\ type(handles[last.o]) = RECEIVER
  /\ \E o \in Objs : call[o].op = "send" /\ BlockingOpen(kernel, handles[o])

\* ---- payload extraction
\* the bytes the claim says are transmitted
BeforeFirstZero(buf) ==
  LET n == CHOOSE l \in 0..(Len(buf) - 1) : buf[l + 1] = 0 /\ \A i \in 1..l : buf[i] # 0
  IN [i \in 1..n |-> buf[i]]
Transmitted(sequence) ==
  IF sequence.kind = "stl" THEN sequence.buf ELSE BeforeFirstZero(sequence.buf)

\* C16: send() of a container transmits exactly its size() bytes, zero
\* bytes inside and at the end included; send() of a null-terminated char
\* pointer or array transmits the bytes before the first zero byte and not
\* the terminator. (The send succeeds when these bytes fit the queue's
\* message size and the queue has room, and the queue then holds them as
\* its newest message.)
C16_ExtractStep ==
  \A o \in Objs :
    LET h == handles[o]
        msgs == PendingOf(kernel, h)
        bytes == Transmitted(last'.sequence)
    IN (last'.op = "send_args" /\ last'.o = o /\ last'.p = NoArg)
         => /\ last'.res.ok <=> (type(h) # RECEIVER /\ Len(bytes) <= max_msgsize(h)
                                 /\ Len(msgs) < max_size(h))
            /\ last'.res.ok
                 => PendingOf(kernel', h) = Append(msgs, [contents |-> bytes, priority |-> DEFAULT])
            /\ ~last'.res.ok => kernel' = kernel
C16_PayloadExtraction == [][C16_ExtractStep]_vars

\* C16 witness: a container with a zero byte inside and one at its end has
\* been sent and the queue holds all of its bytes
C16_Witness ==
  /\ last.op = "send_args" /\ last.res.ok
  /\ last.sequence = [kind |-> "stl", buf |-> <<1, 0, 0>>]
  /\ PendingOf(kernel, handles[last.o]) = <<[contents |-> <<1, 0, 0>>, priority |-> DEFAULT]>>

\* ---- name validation
\* the rule of the claim
WellFormed(nm) ==
  /\ Len(nm) >= 2 /\ nm[1] = "/"
  /\ \A i \in 2..Len(nm) : nm[i] # "/"
  /\ Len(nm) + 1 < NAME_MAX
InvalidName == Throw("invalid_argument", <<"invalid mq name">>)

\* C17: a name passes the validation exactly when it starts with '/', holds
\* no other '/', has at least two characters and its length plus one is
\* below the platform's name limit; construction under every other name
\* fails with invalid_argument before the kernel is asked to open anything,
\* and no queue is created.
C17_NameStep ==
  last'.op = "construct"
    => /\ (last'.res # InvalidName) <=> WellFormed(last'.name)
       /\ WellFormed(last'.name) /\ handles'[last'.o].alive
            => name(handles'[last'.o]) = last'.name /\ kernel'.names[last'.name] # 0
       /\ ~WellFormed(last'.name)
            => /\ kernel' = kernel /\ errno' = errno
               /\ ~handles'[last'.o].alive
C17_NameValidation == [][C17_NameStep]_vars

\* C17 witness: the name one character too long has just been refused
\* while a queue under the longest valid name exists
C17_Witness ==
  /\ last.op = "construct" /\ last.name = NameTooLong /\ last.res = InvalidName
  /\ kernel.names[NameLong] # 0

\* ---- priorities
PriorityExceeds == Throw("invalid_argument", <<"priority exceeds the max. limit(32767)">>)
InRange(p) == p[1] = 0 /\ p[2] <= 32767

\* C18: Priority(p) succeeds and converts back to p exactly when
\* 0 <= p <= 32767, and fails with invalid_argument for every p >= 32768,
\* the largest unsigned value included; a Priority constructed without an
\* argument equals 3. (A message sent with the Priority carries that value.)
C18_PriorityStep ==
  last'.op = "send_args"
    => /\ last'.p # NoArg /\ InRange(last'.p)
            => /\ last'.res # PriorityExceeds /\ last'.priority = last'.p
               /\ last'.res.ok
                    => PendingOf(kernel', handles[last'.o])
                         = Append(PendingOf(kernel, handles[last'.o]),
                                  [contents |-> <<>>, priority |-> last'.p[2]])
       /\ last'.p # NoArg /\ ~InRange(last'.p)
            => last'.res = PriorityExceeds /\ kernel' = kernel
       /\ last'.p = NoArg
            => last'.res # PriorityExceeds /\ last'.priority = <<0, 3>>
C18_PriorityRange == [][C18_PriorityStep]_vars

\* C18 witness: Priority{32767} has been sent and is in the queue, and a
\* Priority{32768} was refused afterwards
C18_Witness ==
  /\ last.op = "send_args" /\ last.p = <<0, 32768>> /\ last.res = PriorityExceeds
  /\ \E o \in Objs : PendingOf(kernel, handles[o]) = <<[contents |-> <<>>, priority |-> 32767]>>

\* ---- the loop of clear()
InClear(o) == call[o].op = "clear"

\* clear() of o starts: size() is read, n = sz; no receive is made yet
C19_BeginStep ==
  \A o \in Objs :
    (Idle(o) /\ last'.o = o /\ last'.op \in {"clear_begin", "clear"})
      => /\ kernel' = kernel
         /\ last'.res.ok => /\ last'.i = 0
                            /\ InClear(o)' <=> PendingOf(kernel, handles[o]) # <<>>
                            /\ InClear(o)' => /\ call'[o].sz = Len(PendingOf(kernel, handles[o]))
                                              /\ call'[o].i = 0

\* inside the loop: a step of o is one receive attempt, counted in i; sz is
\* the value read at the start whatever the queue holds now; the call ends
\* with the attempt that makes i = sz; the steps of others leave i and sz
C19_LoopStep ==
  \A o \in Objs :
    InClear(o)
      => IF last'.o = o
         THEN /\ Len(PendingOf(kernel', handles[o])) \in
                   {Len(PendingOf(kernel, handles[o])), Len(PendingOf(kernel, handles[o])) - 1}
              /\ call[o].i < call[o].sz
              /\ IF call[o].i + 1 < call[o].sz
                 THEN /\ InClear(o)' /\ last'.op = "clear_step"
                      /\ call'[o].sz = call[o].sz /\ call'[o].i = call[o].i + 1
                 ELSE /\ ~InClear(o)' /\ last'.op = "clear" /\ last'.i = call[o].sz
         ELSE call'[o] = call[o]

\* C19: clear() reads size() once, when it starts, as n, makes exactly n
\* receive attempts and never reads the size again; on a non-blocking
\* handle the call ends after n attempts in every interleaving with the
\* calls of other handles.
C19_ClearAttempts ==
  /\ [][C19_BeginStep /\ C19_LoopStep]_vars
  /\ \A o \in Objs : (InClear(o) /\ NonBlockingOpen(kernel, handles[o])) ~> ~InClear(o)

\* C19 witness: a clear() that read n = 2 has ended after two attempts on
\* a queue that was emptied under it by another handle: both attempts
\* failed, and a message sent meanwhile is still there
C19_Witness ==
  /\ last.op = "clear" /\ last.i = 2 /\ last.failed # NoErr
  /\ NonBlockingOpen(kernel, handles[last.o])
  /\ Len(PendingOf(kernel, handles[last.o])) = 1

\* ---- clear() alone
\* C20: clear() on a handle that may receive, with nothing else running
\* during the call, returns success and size() is 0 afterwards, for every
\* number of pending messages from 0 to max_size() and every mix of their
\* priorities.
C20_ClearStep ==
  \A o \in Objs :
    (last'.op = "clear_alone" /\ last'.o = o /\ type(handles[o]) # SENDER)
      => /\ last'.res = Ok
         /\ last'.pre = Len(last'.cleared) /\ last'.pre <= max_size(handles[o])
         /\ last'.post = 0
         /\ PendingOf(kernel', handles'[o]) = <<>>
C20_ClearAlone == [][C20_ClearStep]_vars

\* C20 witness: a blocking receive-only handle has cleared a full queue
\* whose messages had different priorities, the lower one first in line
C20_Witness ==
  /\ last.op = "clear_alone" /\ last.res = Ok /\ last.post = 0
  /\ type(handles[last.o]) = RECEIVER /\ BlockingOpen(kernel, handles[last.o])
  /\ Len(last.cleared) = max_size(handles[last.o])
  /\ last.cleared[1].priority < last.cleared[Len(last.cleared)].priority

\* ---- the error-code cell
\* the call taken last made a kernel call that failed
KernelCallFailed ==
  /\ last.op \in {"construct", "send", "receive", "size", "unlink"}
  /\ ~last.res.ok
  /\ last.res.thrown \in {"", "out_of_range", "bad_expected_access"}
     \/ (last.op = "construct" /\ last.res # Throw("invalid_argument", <<"invalid mq name">>))

\* C21: every failed kernel call made through the wrapper (open, send,
\* receive, get-attributes, unlink) resets the error-code cell to 0 while
\* its cause is produced: after every sequence of wrapper calls, failed
\* ones included, the cell is 0, and the assertions of the constructor and
\* of the destructor that require this hold.
C21_ErrnoReset == errno = 0 /\ last.res # AssertFail

\* C21 witness: get-attributes has just failed inside size() on a
\* moved-from handle, whose call ended with bad_expected_access
C21_Witness ==
  /\ KernelCallFailed /\ last.op = "size" /\ last.res.thrown = "bad_expected_access"
  /\ last.res.err = <<4, 9, "invalid mq fd">>

\* ---- the limits a handle reports
ValidHandle(o) == handles[o].alive /\ IsOpenFd(kernel, handles[o].mqdes)
LimitsMatch ==
  \A o \in Objs :
    ValidHandle(o)
      => /\ max_size(handles[o]) = kernel.qattr[QueueOf(kernel, handles[o])].maxmsg
         /\ max_msgsize(handles[o]) = kernel.qattr[QueueOf(kernel, handles[o])].msgsize
MessageLengthTooSmall == Unexpected(<<3, 90, "given message length less than max. size">>)
C22_ReceiveStep ==
  \A o \in Objs :
    (ValidHandle(o) /\ CallsReceive(o)) => last'.res # MessageLengthTooSmall

\* C22: for every valid handle (open, not moved-from), at every point
\* after its construction or after a move gave it ownership, max_size()
\* and max_msgsize() equal the maximum message count and the maximum
\* message size of its kernel queue; so receive() on a valid handle never
\* fails with "given message length less than max. size".
C22_LimitsCaptured == []LimitsMatch /\ [][C22_ReceiveStep]_vars

\* C22 witness: after a move assignment between them, two valid handles
\* are open on two queues of different limits
C22_Witness ==
  /\ last.op = "move_assign" /\ last.o # last.o2
  /\ ValidHandle(last.o) /\ ValidHandle(last.o2)
  /\ kernel.qattr[QueueOf(kernel, handles[last.o])].msgsize
       < kernel.qattr[QueueOf(kernel, handles[last.o2])].msgsize

\* ---- mode() and type()
\* what the object that holds descriptor fd reports, in the state <<k, e, hs>>
HolderOf(hs, fd) == CHOOSE o \in Objs : hs[o].alive /\ hs[o].mqdes = fd
Held(k, hs, fd) == IsOpenFd(k, fd) /\ \E o \in Objs : hs[o].alive /\ hs[o].mqdes = fd
ModeOf(k, e, hs, fd) == mode(W(k, e, hs[HolderOf(hs, fd)])).res
TypeOf(hs, fd) == type(hs[HolderOf(hs, fd)])

\* a handle just opened reports the mode and the direction written in the
\* constructor call, NonBlocking where no mode was written
C23_OpenStep ==
  (last'.op = "open" /\ last'.res.ok)
    => /\ mode(W(kernel', errno', handles'[last'.o])).res
            = OkNum(IF last'.form \in {"name_mode", "name_mode_type"} THEN last'.md ELSE 2048)
       /\ last'.form \in {"name_type", "name_mode_type"} => type(handles'[last'.o]) = last'.ty

\* no step changes what the holder of a descriptor reports: a send,
\* receive, clear or move of the handle, the opening of another handle
C23_KeepStep ==
  \A fd \in Fds :
    (Held(kernel, handles, fd) /\ Held(kernel', handles', fd))
      => /\ ModeOf(kernel', errno', handles', fd) = ModeOf(kernel, errno, handles, fd)
         /\ ModeOf(kernel, errno, handles, fd).ok
         /\ TypeOf(handles', fd) = TypeOf(handles, fd)

\* C23: for every open handle mode() returns the blocking mode the handle
\* was opened with (NonBlocking when none was given) and type() the
\* direction it was opened with; no send, receive, clear or move of the
\* handle changes either, nor does another handle opened on the same name
\* with a different mode or direction.
C23_ModeAndType == [][C23_OpenStep /\ C23_KeepStep]_vars

\* C23 witness: a blocking send-only handle has been moved into another
\* object while a non-blocking handle opened without a mode argument is
\* open on the same name
C23_Witness ==
  /\ last.op \in {"move_construct", "move_assign"}
  /\ ValidHandle(last.o) /\ type(handles[last.o]) = SENDER
  /\ mode(Me(last.o)).res = OkNum(BLOCKING)
  /\ \E o \in Objs \ {last.o} :
       /\ ValidHandle(o) /\ mode(Me(o)).res = OkNum(NON_BLOCKING)
       /\ QueueOf(kernel, handles[o]) = QueueOf(kernel, handles[last.o])

\* ---- reset(true) on a name that has a queue
\* C24: when build() with reset(true) succeeds on a name that has a queue
\* already, the unlink and the open following each other directly, the
\* handle returned is on a newly created queue and its size() is 0
\* whatever the old queue held; the handles open on the old queue keep
\* their pending messages; and the name exists afterwards: an unlink(name)
\* that follows succeeds.
C24_FreshStep ==
  \A nm \in OwnNames :
    (BuildsWithReset(nm) /\ kernel.names[nm] # 0 /\ last'.res.ok)
      => LET old == kernel.names[nm]
             new == QueueOf(kernel', handles'[last'.o])
             onOld == {o \in Objs : handles[o].alive /\ QueueOf(kernel, handles[o]) = old}
         IN /\ handles'[last'.o].alive /\ new # 0 /\ kernel'.names[nm] = new
            /\ size(W(kernel', errno', handles'[last'.o])).res = OkNum(0)
            /\ kernel'.msgs[new] = <<>>
            /\ onOld # {} => new # old
            /\ \A o \in onOld :
                 /\ handles'[o] = handles[o]
                 /\ PendingOf(kernel', handles'[o]) = kernel.msgs[old]
            /\ unlink(kernel', errno', nm, 0).res = Ok
C24_ResetGivesFresh == [][C24_FreshStep]_vars

\* C24 witness: build() with reset(true) has returned a handle on an empty
\* queue under a name whose queue held a message, which the handle open
\* on the old queue still has
C24_Witness ==
  /\ last.op = "build" /\ last.i = 1 /\ last.res.ok /\ last.name = NameA
  /\ last.cleared # <<>>
  /\ PendingOf(kernel, handles[last.o]) = <<>>
  /\ \E o \in Objs \ {last.o} :
       /\ ValidHandle(o) /\ PendingOf(kernel, handles[o]) = last.cleared
       /\ QueueOf(kernel, handles[o]) # QueueOf(kernel, handles[last.o])

====
